---- MODULE Spec2Model ----
(***************************************************************************)
(* A model of the enclosure plugin                                         *)
(* (src/src/middlewared/middlewared/plugins/enclosure.py): the SES status  *)
(* block decoder (Enclosure._parse), the raw value packing                 *)
(* (Enclosure._parse_raw_value), the sysfs slot mapping                    *)
(* (Enclosure.map_disks_to_enclosure_slots), the model classifier          *)
(* (Enclosure._set_model) and the slot control dispatcher                  *)
(* (EnclosureService.set_slot_status).                                     *)
(*                                                                         *)
(* Python text is a sequence of one-character strings, so that the regular *)
(* expressions, str.split, str.startswith and int(..., 16) of the source   *)
(* are computed and not assumed.  None is the empty tuple and a value x    *)
(* that is present is the one-element tuple <<x>>.                         *)
(***************************************************************************)
EXTENDS Integers, Sequences, FiniteSets, TLC

(***************************************************************************)
(* Bounds of the model.                                                    *)
(***************************************************************************)
\* the longest status block (in lines) the decoder is run on
MaxLines == 4
\* the largest number of sysfs slot directories of one enclosure
MaxDirs == 3

(***************************************************************************)
(* String literals of the source.                                          *)
(***************************************************************************)
\* the string literals of the source, by name
Str ==
    \* "Element type: "
    [ElementType |-> <<"E", "l", "e", "m", "e", "n", "t", " ", "t", "y", "p", "e", ":",
                       " ">>,
    \* ", subenclosure"
     Subenclosure |-> <<",", " ", "s", "u", "b", "e", "n", "c", "l", "o", "s", "u", "r",
                        "e">>,
    \* "Element "
     Element |-> <<"E", "l", "e", "m", "e", "n", "t", " ">>,
    \* " descriptor:"
     Descriptor |-> <<" ", "d", "e", "s", "c", "r", "i", "p", "t", "o", "r", ":">>,
    \* "Audible alarm"
     AudibleAlarm |-> <<"A", "u", "d", "i", "b", "l", "e", " ", "a", "l", "a", "r", "m">>,
    \* "Temperature Sensor"
     TemperatureSensor |-> <<"T", "e", "m", "p", "e", "r", "a", "t", "u", "r", "e", " ",
                             "S", "e", "n", "s", "o", "r">>,
    \* "Temperature Sensors"
     TemperatureSensors |-> <<"T", "e", "m", "p", "e", "r", "a", "t", "u", "r", "e",
                              " ", "S", "e", "n", "s", "o", "r", "s">>,
    \* "Array Device Slot"
     ArrayDeviceSlot |-> <<"A", "r", "r", "a", "y", " ", "D", "e", "v", "i", "c", "e",
                           " ", "S", "l", "o", "t">>,
    \* "Communication Port"
     CommunicationPort |-> <<"C", "o", "m", "m", "u", "n", "i", "c", "a", "t", "i", "o",
                             "n", " ", "P", "o", "r", "t">>,
    \* "Current Sensor"
     CurrentSensor |-> <<"C", "u", "r", "r", "e", "n", "t", " ", "S", "e", "n", "s",
                         "o", "r">>,
    \* "Enclosure"
     Enclosure |-> <<"E", "n", "c", "l", "o", "s", "u", "r", "e">>,
    \* "Voltage Sensor"
     VoltageSensor |-> <<"V", "o", "l", "t", "a", "g", "e", " ", "S", "e", "n", "s",
                         "o", "r">>,
    \* "Cooling"
     Cooling |-> <<"C", "o", "o", "l", "i", "n", "g">>,
    \* "Power Supply"
     PowerSupply |-> <<"P", "o", "w", "e", "r", " ", "S", "u", "p", "p", "l", "y">>,
    \* "SAS Connector"
     SASConnector |-> <<"S", "A", "S", " ", "C", "o", "n", "n", "e", "c", "t", "o", "r">>,
    \* "SAS Expander"
     SASExpander |-> <<"S", "A", "S", " ", "E", "x", "p", "a", "n", "d", "e", "r">>,
    \* "ECStream"
     ECStream |-> <<"E", "C", "S", "t", "r", "e", "a", "m">>,
    \* "iX"
     iX |-> <<"i", "X">>,
    \* " 4024S"
     n4024S |-> <<" ", "4", "0", "2", "4", "S">>,
    \* " FS1"
     FS1 |-> <<" ", "F", "S", "1">>,
    \* " FS2"
     FS2 |-> <<" ", "F", "S", "2">>,
    \* " DSS212S"
     DSS212S |-> <<" ", "D", "S", "S", "2", "1", "2", "S">>,
    \* "iX TrueNAS R20p"
     iXTrueNASR20p |-> <<"i", "X", " ", "T", "r", "u", "e", "N", "A", "S", " ", "R",
                         "2", "0", "p">>,
    \* "iX 2012Sp"
     iX2012Sp |-> <<"i", "X", " ", "2", "0", "1", "2", "S", "p">>,
    \* "SMC SC826-P"
     SMCSC826P |-> <<"S", "M", "C", " ", "S", "C", "8", "2", "6", "-", "P">>,
    \* "iX eDrawer4048S"
     iXeDrawer4048S |-> <<"i", "X", " ", "e", "D", "r", "a", "w", "e", "r", "4", "0",
                          "4", "8", "S">>,
    \* "eDrawer4048S1"
     eDrawer4048S1 |-> <<"e", "D", "r", "a", "w", "e", "r", "4", "0", "4", "8", "S", "1">>,
    \* "CELESTIC P3215-O"
     CELESTICP3215O |-> <<"C", "E", "L", "E", "S", "T", "I", "C", " ", "P", "3", "2",
                          "1", "5", "-", "O">>,
    \* "CELESTIC P3217-B"
     CELESTICP3217B |-> <<"C", "E", "L", "E", "S", "T", "I", "C", " ", "P", "3", "2",
                          "1", "7", "-", "B">>,
    \* " 4024J"
     n4024J |-> <<" ", "4", "0", "2", "4", "J">>,
    \* " 2024J"
     n2024J |-> <<" ", "2", "0", "2", "4", "J">>,
    \* "TRUENAS-MINI"
     TRUENASMINI |-> <<"T", "R", "U", "E", "N", "A", "S", "-", "M", "I", "N", "I">>,
    \* "FREENAS-MINI"
     FREENASMINI |-> <<"F", "R", "E", "E", "N", "A", "S", "-", "M", "I", "N", "I">>,
    \* "TRUENAS-R20"
     TRUENAS_R20 |-> <<"T", "R", "U", "E", "N", "A", "S", "-", "R", "2", "0">>,
    \* "TRUENAS-R20A"
     TRUENAS_R20A |-> <<"T", "R", "U", "E", "N", "A", "S", "-", "R", "2", "0", "A">>,
    \* "TRUENAS-R20B"
     TRUENAS_R20B |-> <<"T", "R", "U", "E", "N", "A", "S", "-", "R", "2", "0", "B">>,
    \* "TRUENAS-"
     TRUENAS_ |-> <<"T", "R", "U", "E", "N", "A", "S", "-">>,
    \* "FREENAS-"
     FREENAS_ |-> <<"F", "R", "E", "E", "N", "A", "S", "-">>,
    \* "TRUENAS-H"
     TRUENAS_H |-> <<"T", "R", "U", "E", "N", "A", "S", "-", "H">>,
    \* "-MINI-"
     MINI_ |-> <<"-", "M", "I", "N", "I", "-">>,
    \* "VirtualSES"
     VirtualSES |-> <<"V", "i", "r", "t", "u", "a", "l", "S", "E", "S">>,
    \* "AHCI SGPIO Enclosure 2.00"
     AHCISGPIO |-> <<"A", "H", "C", "I", " ", "S", "G", "P", "I", "O", " ", "E", "n",
                     "c", "l", "o", "s", "u", "r", "e", " ", "2", ".", "0", "0">>,
    \* "BROADCOM VirtualSES 03"
     BROADCOMVirtualSES03 |-> <<"B", "R", "O", "A", "D", "C", "O", "M", " ", "V", "i",
                                "r", "t", "u", "a", "l", "S", "E", "S", " ", "0", "3">>,
    \* "QUANTA JB9 SIM"
     QUANTAJB9SIM |-> <<"Q", "U", "A", "N", "T", "A", " ", "J", "B", "9", " ", "S", "I",
                        "M">>,
    \* "Storage 1729"
     Storage1729 |-> <<"S", "t", "o", "r", "a", "g", "e", " ", "1", "7", "2", "9">>,
    \* "ECStream 3U16+4R-4X6G.3"
     ECStream3U16_4R |-> <<"E", "C", "S", "t", "r", "e", "a", "m", " ", "3", "U", "1",
                           "6", "+", "4", "R", "-", "4", "X", "6", "G", ".", "3">>,
    \* "SD_9GV12P1J_12R6K4"
     SD_9GV12P1J |-> <<"S", "D", "_", "9", "G", "V", "1", "2", "P", "1", "J", "_", "1",
                       "2", "R", "6", "K", "4">>,
    \* "ECStream 3U16RJ-AC.r3"
     ECStream3U16RJ |-> <<"E", "C", "S", "t", "r", "e", "a", "m", " ", "3", "U", "1",
                          "6", "R", "J", "-", "A", "C", ".", "r", "3">>,
    \* "HGST H4102-J"
     HGSTH4102J |-> <<"H", "G", "S", "T", " ", "H", "4", "1", "0", "2", "-", "J">>,
    \* "VikingES NDS-41022-BB"
     VikingESNDS |-> <<"V", "i", "k", "i", "n", "g", "E", "S", " ", "N", "D", "S", "-",
                       "4", "1", "0", "2", "2", "-", "B", "B">>,
    \* "VikingES VDS-41022-BB"
     VikingESVDS |-> <<"V", "i", "k", "i", "n", "g", "E", "S", " ", "V", "D", "S", "-",
                       "4", "1", "0", "2", "2", "-", "B", "B">>,
    \* "CELESTIC R0904"
     CELESTICR0904 |-> <<"C", "E", "L", "E", "S", "T", "I", "C", " ", "R", "0", "9",
                         "0", "4">>,
    \* "HGST H4060-J"
     HGSTH4060J |-> <<"H", "G", "S", "T", " ", "H", "4", "0", "6", "0", "-", "J">>,
    \* "CELESTIC X2012"
     CELESTICX2012 |-> <<"C", "E", "L", "E", "S", "T", "I", "C", " ", "X", "2", "0",
                         "1", "2">>,
    \* "M Series"
     MSeries |-> <<"M", " ", "S", "e", "r", "i", "e", "s">>,
    \* "X Series"
     XSeries |-> <<"X", " ", "S", "e", "r", "i", "e", "s">>,
    \* "H Series"
     HSeries |-> <<"H", " ", "S", "e", "r", "i", "e", "s">>,
    \* "Z Series"
     ZSeries |-> <<"Z", " ", "S", "e", "r", "i", "e", "s">>,
    \* "E60"
     E60 |-> <<"E", "6", "0">>,
    \* "E24"
     E24 |-> <<"E", "2", "4">>,
    \* "E16"
     E16 |-> <<"E", "1", "6">>,
    \* "ES102"
     ES102 |-> <<"E", "S", "1", "0", "2">>,
    \* "ES102G2"
     ES102G2 |-> <<"E", "S", "1", "0", "2", "G", "2">>,
    \* "ES60"
     ES60 |-> <<"E", "S", "6", "0">>,
    \* "ES60G2"
     ES60G2 |-> <<"E", "S", "6", "0", "G", "2">>,
    \* "ES24"
     ES24 |-> <<"E", "S", "2", "4">>,
    \* "ES24F"
     ES24F |-> <<"E", "S", "2", "4", "F">>,
    \* "ES12"
     ES12 |-> <<"E", "S", "1", "2">>,
    \* "R50, "
     R50comma |-> <<"R", "5", "0", ",", " ">>,
    \* "enclosure logical identifier (hex): "
     LogicalId |-> <<"e", "n", "c", "l", "o", "s", "u", "r", "e", " ", "l", "o", "g",
                     "i", "c", "a", "l", " ", "i", "d", "e", "n", "t", "i", "f", "i",
                     "e", "r", " ", "(", "h", "e", "x", ")", ":", " ">>,
    \* "bsg/"
     bsg_ |-> <<"b", "s", "g", "/">>,
    \* "CLEAR"
     CLEAR |-> <<"C", "L", "E", "A", "R">>,
    \* "FAULT"
     FAULT |-> <<"F", "A", "U", "L", "T">>,
    \* "IDENTIFY"
     IDENTIFY |-> <<"I", "D", "E", "N", "T", "I", "F", "Y">>,
    \* "clear=ident"
     clear_ident |-> <<"c", "l", "e", "a", "r", "=", "i", "d", "e", "n", "t">>,
    \* "clear=fault"
     clear_fault |-> <<"c", "l", "e", "a", "r", "=", "f", "a", "u", "l", "t">>,
    \* "set="
     set_ |-> <<"s", "e", "t", "=">>,
    \* "r30_nvme_enclosure"
     r30_nvme_enclosure |-> <<"r", "3", "0", "_", "n", "v", "m", "e", "_", "e", "n",
                              "c", "l", "o", "s", "u", "r", "e">>,
    \* "f60_nvme_enclosure"
     f60_nvme_enclosure |-> <<"f", "6", "0", "_", "n", "v", "m", "e", "_", "e", "n",
                              "c", "l", "o", "s", "u", "r", "e">>,
    \* "f100_nvme_enclosure"
     f100_nvme_enclosure |-> <<"f", "1", "0", "0", "_", "n", "v", "m", "e", "_", "e",
                               "n", "c", "l", "o", "s", "u", "r", "e">>,
    \* "f130_nvme_enclosure"
     f130_nvme_enclosure |-> <<"f", "1", "3", "0", "_", "n", "v", "m", "e", "_", "e",
                               "n", "c", "l", "o", "s", "u", "r", "e">>,
    \* "mapped_enclosure_0"
     mapped_enclosure_0 |-> <<"m", "a", "p", "p", "e", "d", "_", "e", "n", "c", "l",
                              "o", "s", "u", "r", "e", "_", "0">>,
    \* "/dev/"
     dev_ |-> <<"/", "d", "e", "v", "/">>,
    \* "/sys/class/enclosure/"
     sys_class_enclosure_ |-> <<"/", "s", "y", "s", "/", "c", "l", "a", "s", "s", "/",
                                "e", "n", "c", "l", "o", "s", "u", "r", "e", "/">>,
    \* "Enclosure with id: "
     EnclosureWithId |-> <<"E", "n", "c", "l", "o", "s", "u", "r", "e", " ", "w", "i",
                           "t", "h", " ", "i", "d", ":", " ">>,
    \* " not found"
     NotFound |-> <<" ", "n", "o", "t", " ", "f", "o", "u", "n", "d">>,
    \* "Slot: "
     SlotColon |-> <<"S", "l", "o", "t", ":", " ">>,
    \* "Failed to "
     FailedTo |-> <<"F", "a", "i", "l", "e", "d", " ", "t", "o", " ">>,
    \* " slot "
     Slot_ |-> <<" ", "s", "l", "o", "t", " ">>,
    \* " on enclosure "
     OnEnclosure |-> <<" ", "o", "n", " ", "e", "n", "c", "l", "o", "s", "u", "r", "e",
                       " ">>]

(***************************************************************************)
(* Python values.                                                          *)
(***************************************************************************)
None == <<>>
Some(x) == <<x>>
\* bool(x) of an optional str and of an optional int: None, "" and 0 are false
TruthyStr(o) == o # None /\ o[1] # <<>>
TruthyInt(o) == o # None /\ o[1] # 0

Lowercase == <<"a", "b", "c", "d", "e", "f", "g", "h", "i", "j", "k", "l", "m", "n", "o",
    "p", "q", "r", "s", "t", "u", "v", "w", "x", "y", "z">>
Uppercase == <<"A", "B", "C", "D", "E", "F", "G", "H", "I", "J", "K", "L", "M", "N", "O",
    "P", "Q", "R", "S", "T", "U", "V", "W", "X", "Y", "Z">>
\* str.upper() and str.lower() of one character
Upper(c) == IF \E i \in 1..26 : Lowercase[i] = c
            THEN Uppercase[CHOOSE i \in 1..26 : Lowercase[i] = c] ELSE c
Lower(c) == IF \E i \in 1..26 : Uppercase[i] = c
            THEN Lowercase[CHOOSE i \in 1..26 : Uppercase[i] = c] ELSE c
LowerStr(s) == [i \in 1..Len(s) |-> Lower(s[i])]

\* \s of the re module (no line of str.splitlines() holds a line break)
Spaces == {" ", "\t"}
IsSpace(c) == c \in Spaces
\* [0-9]
Digits == <<"0", "1", "2", "3", "4", "5", "6", "7", "8", "9">>
DigitSet == {Digits[i] : i \in 1..10}
DigitVal(c) == (CHOOSE i \in 1..10 : Digits[i] = c) - 1
\* [0-9a-f]
HexDigits == <<"0", "1", "2", "3", "4", "5", "6", "7", "8", "9", "a", "b", "c", "d", "e", "f">>
HexSet == {HexDigits[i] : i \in 1..16}
HexVal(c) == (CHOOSE i \in 1..16 : HexDigits[i] = c) - 1

\* s[p:].startswith(lit), p counted from 1
MatchAt(s, p, lit) ==
    /\ p + Len(lit) - 1 <= Len(s)
    /\ SubSeq(s, p, p + Len(lit) - 1) = lit
StartsWith(s, lit) == MatchAt(s, 1, lit)
\* the length of the longest run of characters of the set cs that starts at s[p]
RECURSIVE RunLen(_, _, _)
RunLen(s, p, cs) ==
    IF p <= Len(s) /\ s[p] \in cs THEN 1 + RunLen(s, p + 1, cs) ELSE 0
\* the length of the longest run of characters outside the set cs that starts at s[p]
RECURSIVE RunLenNot(_, _, _)
RunLenNot(s, p, cs) ==
    IF p <= Len(s) /\ s[p] \notin cs THEN 1 + RunLenNot(s, p + 1, cs) ELSE 0

\* int(s) of a run of decimal digits
RECURSIVE DecValue(_)
DecValue(s) ==
    IF s = <<>> THEN 0 ELSE 10 * DecValue(SubSeq(s, 1, Len(s) - 1)) + DigitVal(s[Len(s)])

\* s.split(sep) for a one-character sep: every field, the empty ones included
RECURSIVE SplitOn(_, _)
SplitOn(s, sep) ==
    IF \A i \in 1..Len(s) : s[i] # sep THEN <<s>>
    ELSE LET i == CHOOSE j \in 1..Len(s) : s[j] = sep /\ \A k \in 1..(j - 1) : s[k] # sep
         IN  <<SubSeq(s, 1, i - 1)>> \o SplitOn(SubSeq(s, i + 1, Len(s)), sep)
\* s.split(): the maximal runs of non-whitespace characters
RECURSIVE SplitWords(_)
SplitWords(s) ==
    IF s = <<>> THEN <<>>
    ELSE IF IsSpace(s[1]) THEN SplitWords(Tail(s))
    ELSE LET n == RunLenNot(s, 1, Spaces)
         IN  <<SubSeq(s, 1, n)>> \o SplitWords(SubSeq(s, n + 1, Len(s)))
\* " ".join(words)
RECURSIVE JoinWords(_)
JoinWords(words) ==
    IF words = <<>> THEN <<>>
    ELSE IF Len(words) = 1 THEN words[1]
    ELSE words[1] \o <<" ">> \o JoinWords(Tail(words))

\* A Python int that is not negative and may exceed 2^31 - 1 (a raw value does):
\* the sequence of its bits, the lowest first, the highest a 1; 0 is <<>>.
RECURSIVE Bits(_)
Bits(n) == IF n = 0 THEN <<>> ELSE <<n % 2>> \o Bits(n \div 2)
RECURSIVE Normalize(_)
Normalize(b) ==
    IF b # <<>> /\ b[Len(b)] = 0 THEN Normalize(SubSeq(b, 1, Len(b) - 1)) ELSE b
BitAt(b, i) == IF i <= Len(b) THEN b[i] ELSE 0
\* the number of a bit sequence below 2^31
RECURSIVE ToNat(_)
ToNat(b) == IF b = <<>> THEN 0 ELSE b[1] + 2 * ToNat(Tail(b))
\* a | b, a & b, a << n and a >> n
BitOr(a, b) ==
    [i \in 1..(IF Len(a) > Len(b) THEN Len(a) ELSE Len(b)) |->
        IF BitAt(a, i) = 1 \/ BitAt(b, i) = 1 THEN 1 ELSE 0]
BitAnd(a, b) ==
    Normalize([i \in 1..(IF Len(a) < Len(b) THEN Len(a) ELSE Len(b)) |->
                  IF a[i] = 1 /\ b[i] = 1 THEN 1 ELSE 0])
ShiftLeft(a, n) == IF a = <<>> THEN <<>> ELSE [i \in 1..n |-> 0] \o a
ShiftRight(a, n) == SubSeq(a, n + 1, Len(a))
\* int(s, 16) of a run of hexadecimal digits
RECURSIVE HexValue(_)
HexValue(s) ==
    IF s = <<>> THEN <<>>
    ELSE Normalize([i \in 1..4 |-> BitAt(Bits(HexVal(s[Len(s)])), i)]
                   \o HexValue(SubSeq(s, 1, Len(s) - 1)))

Max(S) == CHOOSE m \in S : \A k \in S : k <= m
Min(S) == CHOOSE m \in S : \A k \in S : m <= k

\* s.strip()
RECURSIVE LStrip(_)
LStrip(s) == IF s # <<>> /\ s[1] \in Spaces \cup {"\n"} THEN LStrip(Tail(s)) ELSE s
RECURSIVE RStrip(_)
RStrip(s) ==
    IF s # <<>> /\ s[Len(s)] \in Spaces \cup {"\n"} THEN RStrip(SubSeq(s, 1, Len(s) - 1)) ELSE s
Strip(s) == RStrip(LStrip(s))
\* lit in s
Contains(s, lit) == \E p \in 1..Len(s) : MatchAt(s, p, lit)
\* s.replace(old, "")
RECURSIVE RemoveAll(_, _)
RemoveAll(s, old) ==
    IF s = <<>> THEN <<>>
    ELSE IF MatchAt(s, 1, old) THEN RemoveAll(SubSeq(s, Len(old) + 1, Len(s)), old)
    ELSE <<s[1]>> \o RemoveAll(Tail(s), old)
\* s.removeprefix(prefix)
RemovePrefix(s, prefix) ==
    IF StartsWith(s, prefix) THEN SubSeq(s, Len(prefix) + 1, Len(s)) ELSE s
\* s.splitlines()[0]
FirstLine(s) == SubSeq(s, 1, RunLenNot(s, 1, {"\n"}))
\* the strings a b, a in A and b in B
Cat(A, B) == {a \o b : a \in A, b \in B}
\* REGEX.match(s) of a pattern that is a finite set of literals
MatchAny(alts, s) == \E a \in alts : StartsWith(s, a)

(***************************************************************************)
(* The three line shapes of the status block (Enclosure._parse).          *)
(***************************************************************************)
\* re.match(r"\s+Element type: (.+), subenclosure", line): group 1, or None.
\* (.+) is greedy: it ends before the last ", subenclosure" of the line.
MatchTypeLine(line) ==
    LET k == RunLen(line, 1, Spaces)
        p == k + 1 + Len(Str.ElementType)
        ends == {q \in p..Len(line) : MatchAt(line, q + 1, Str.Subenclosure)}
    IN  IF k >= 1 /\ MatchAt(line, k + 1, Str.ElementType) /\ ends # {}
        THEN Some(SubSeq(line, p, Max(ends)))
        ELSE None
\* re.match(r"\s+Element ([0-9]+) descriptor:", line): group 1, or None
MatchDescLine(line) ==
    LET k == RunLen(line, 1, Spaces)
        p == k + 1 + Len(Str.Element)
        d == RunLen(line, p, DigitSet)
    IN  IF k >= 1 /\ MatchAt(line, k + 1, Str.Element) /\ d >= 1
           /\ MatchAt(line, p + d, Str.Descriptor)
        THEN Some(SubSeq(line, p, p + d - 1))
        ELSE None
\* re.match(r"\s+([0-9a-f ]{11})", line): group 1, or None.  \s+ is greedy and
\* gives back leading spaces until eleven characters of the class follow it.
MatchHexLine(line) ==
    LET k == RunLen(line, 1, Spaces)
        starts == {j \in 1..k : /\ j + 11 <= Len(line)
                                /\ \A i \in (j + 1)..(j + 11) : line[i] \in HexSet \cup {" "}}
    IN  IF starts # {}
        THEN Some(SubSeq(line, Max(starts) + 1, Max(starts) + 11))
        ELSE None
\* the title-casing of the type name
RECURSIVE TitleWords(_)
TitleWords(words) ==
    IF words = <<>> THEN <<>>
    ELSE <<<<Upper(words[1][1])>> \o Tail(words[1])>> \o TitleWords(Tail(words))
ElementTypeName(group) ==
    LET titled == IF group # Str.AudibleAlarm THEN JoinWords(TitleWords(SplitWords(group)))
                  ELSE group
    IN  IF titled = Str.TemperatureSensor THEN Str.TemperatureSensors ELSE titled

(***************************************************************************)
(* Enclosure._parse_raw_value                                              *)
(***************************************************************************)
\* the outcome of a call: a value, or an exception that leaves the caller
Returned(v) == [raised |-> FALSE, value |-> v]
Raised == [raised |-> TRUE, value |-> <<>>]
\* the position of the i-th field (i from 0): (2 * (3 - i)) * 4
\* a mutant: the shift of a half byte for each field
ShiftOfNibble(i) == (3 - i) * 4
ShiftOf(i) == (2 * (3 - i)) * 4
\* the loop of _parse_raw_value from index i; a negative shift count is a ValueError
RECURSIVE PackFrom(_, _, _)
PackFrom(value, i, newvalue) ==
    IF i >= Len(value) THEN Returned(newvalue)
    ELSE IF ShiftOf(i) < 0 THEN Raised
    ELSE PackFrom(value, i + 1, BitOr(newvalue, ShiftLeft(value[i + 1], ShiftOf(i))))
\* the fields of a str value: int(i, 16) of an empty field is a ValueError (the
\* class [0-9a-f ] of the only str that reaches it holds no "x" to replace)
HexFields(value) == SplitOn(value, " ")
_parse_raw_value(value, is_str) ==
    IF is_str
    THEN IF \E i \in 1..Len(HexFields(value)) : HexFields(value)[i] = <<>>
         THEN Raised
         ELSE PackFrom([i \in 1..Len(HexFields(value)) |-> HexValue(HexFields(value)[i])],
                       0, <<>>)
    ELSE PackFrom([i \in 1..Len(value) |-> Bits(value[i])], 0, <<>>)

(***************************************************************************)
(* The state: one Enclosure object under construction, one call of         *)
(* _parse_raw_value, and one call of set_slot_status.                      *)
(***************************************************************************)
VARIABLES
    \* Enclosure.__init__: the arguments and what the constructor reads
    product_name,       \* system-product-name of dmidecode
    cf,                 \* data[0]: the configuration block
    es,                 \* data[1]: the status block, as its lines
    sysfs,              \* the entries of /sys/class/enclosure/<pci>, in iterdir() order
    ses_status,         \* EnclosureDevice(devname).status()["elements"]
    \* Enclosure: the fields
    encname, encid, model, controller,
    elements,           \* __elements, in append order
    \* Enclosure._parse: the locals of the loop and the position in it
    element_type, element_number,
    ln,                 \* the number of status lines consumed
    pc                  \* "init", "map", "lines", "done", or "raised"

encVars == <<product_name, cf, es, sysfs, ses_status, encname, encid, model, controller,
             elements, element_type, element_number, ln, pc>>

(***************************************************************************)
(* Regular expressions and product names of the module (lines 47-55).      *)
(***************************************************************************)
M_SERIES_REGEX == Cat(Cat({Str.ECStream, Str.iX}, {Str.n4024S}), {<<"p">>, <<"s">>})
R_SERIES_REGEX ==
    Cat({Str.ECStream, Str.iX}, {Str.FS1, Str.FS2} \cup Cat({Str.DSS212S}, {<<"p">>, <<"s">>}))
R20_REGEX == {Str.iXTrueNASR20p, Str.iX2012Sp, Str.SMCSC826P}
R50_REGEX == Cat({Str.iXeDrawer4048S}, {<<"1">>, <<"2">>})
X_SERIES_REGEX == {Str.CELESTICP3215O, Str.CELESTICP3217B}
ES24_REGEX == Cat({Str.ECStream, Str.iX}, {Str.n4024J})
ES24F_REGEX == Cat(Cat({Str.ECStream, Str.iX}, {Str.n2024J}), {<<"p">>, <<"s">>})
MINI_REGEX == {Str.TRUENASMINI, Str.FREENASMINI}
R20_VARIANT == {Str.TRUENAS_R20, Str.TRUENAS_R20A, Str.TRUENAS_R20B}

(***************************************************************************)
(* Enclosure._set_model: the (model, controller) of a decoded name.        *)
(***************************************************************************)
\* a mutant: no name makes a controller
ClassifiedNotController(m, c) == [model |-> m, controller |-> FALSE]
Classified(m, c) == [model |-> m, controller |-> c]
_set_model(name, product, data) ==
    IF MatchAny(M_SERIES_REGEX, name) THEN Classified(Str.MSeries, TRUE)
    ELSE IF \/ MatchAny(R_SERIES_REGEX, name)
            \/ MatchAny(R20_REGEX, name)
            \/ MatchAny(R50_REGEX, name)
    THEN Classified(RemoveAll(product, Str.TRUENAS_), TRUE)
    ELSE IF name = Str.AHCISGPIO
    THEN IF product \in R20_VARIANT THEN Classified(RemoveAll(product, Str.TRUENAS_), TRUE)
         ELSE IF MatchAny(MINI_REGEX, product) THEN Classified(product, TRUE)
         ELSE Classified(<<>>, TRUE)
    ELSE IF MatchAny(X_SERIES_REGEX, name) THEN Classified(Str.XSeries, TRUE)
    ELSE IF StartsWith(name, Str.BROADCOMVirtualSES03) THEN Classified(Str.HSeries, TRUE)
    ELSE IF StartsWith(name, Str.QUANTAJB9SIM) THEN Classified(Str.E60, FALSE)
    ELSE IF StartsWith(name, Str.Storage1729) THEN Classified(Str.E24, FALSE)
    ELSE IF StartsWith(name, Str.ECStream3U16_4R)
    THEN IF Contains(data, Str.SD_9GV12P1J) THEN Classified(Str.ZSeries, TRUE)
         ELSE Classified(Str.E16, FALSE)
    ELSE IF StartsWith(name, Str.ECStream3U16RJ) THEN Classified(Str.E16, FALSE)
    ELSE IF StartsWith(name, Str.HGSTH4102J) THEN Classified(Str.ES102, FALSE)
    ELSE IF StartsWith(name, Str.VikingESNDS) \/ StartsWith(name, Str.VikingESVDS)
    THEN Classified(Str.ES102G2, FALSE)
    ELSE IF StartsWith(name, Str.CELESTICR0904) THEN Classified(Str.ES60, FALSE)
    ELSE IF StartsWith(name, Str.HGSTH4060J) THEN Classified(Str.ES60G2, FALSE)
    ELSE IF MatchAny(ES24_REGEX, name) THEN Classified(Str.ES24, FALSE)
    ELSE IF MatchAny(ES24F_REGEX, name) THEN Classified(Str.ES24F, FALSE)
    ELSE IF StartsWith(name, Str.CELESTICX2012) THEN Classified(Str.ES12, FALSE)
    ELSE Classified(<<>>, FALSE)

\* re.search(r"\s+enclosure logical identifier \(hex\): ([0-9a-f]+)", cf): group 1,
\* or None.  A line break is whitespace to \s.
LogicalIdStarts(text) ==
    {p \in 2..Len(text) : /\ text[p - 1] \in Spaces \cup {"\n"}
                          /\ MatchAt(text, p, Str.LogicalId)
                          /\ RunLen(text, p + Len(Str.LogicalId), HexSet) >= 1}
SearchLogicalId(text) ==
    IF LogicalIdStarts(text) = {} THEN None
    ELSE LET g == Min(LogicalIdStarts(text)) + Len(Str.LogicalId)
         IN  Some(SubSeq(text, g, g + RunLen(text, g, HexSet) - 1))

(***************************************************************************)
(* Elements (class Element and its subclasses).                            *)
(***************************************************************************)
\* value_raw of an element: an int, or the str of the sysfs status attribute
IntValue(n) == [is_int |-> TRUE, n |-> n, s |-> <<>>]
StrValue(s) == [is_int |-> FALSE, n |-> <<>>, s |-> s]
\* ArrayDevSlot.__init__: the first name of dev.strip().split(',') that does not
\* start with "pass", or ""
RECURSIVE FirstNotPass(_)
FirstNotPass(names) ==
    IF names = <<>> THEN <<>>
    ELSE IF StartsWith(names[1], <<"p", "a", "s", "s">>) THEN FirstNotPass(Tail(names))
    ELSE names[1]
\* Element.__init__: _identify and _fault exist only when value_raw is no int
Element(cls, name, slot, value_raw, desc, dev, identify, fault) ==
    [cls |-> cls, name |-> name, slot |-> slot, value_raw |-> value_raw,
     descriptor |-> desc, devname |-> dev,
     identify |-> IF value_raw.is_int THEN None ELSE Some(identify),
     fault |-> IF value_raw.is_int THEN None ELSE Some(fault)]
ArrayDevSlot(slot, value_raw, desc, dev, identify, fault) ==
    Element("ArrayDevSlot", Str.ArrayDeviceSlot, slot, value_raw, desc,
            FirstNotPass(SplitOn(Strip(dev), ",")), identify, fault)
\* ArrayDevSlot.identify and ArrayDevSlot.fault
identify(e) ==
    IF e.identify # None THEN e.identify[1] # <<"0">>
    ELSE BitAnd(ShiftRight(e.value_raw.n, 8), Bits(2)) # <<>>
fault(e) ==
    IF e.fault # None THEN e.fault[1] # <<"0">>
    ELSE BitAnd(e.value_raw.n, Bits(32)) # <<>>

\* lines 28-45
STATUS_DESC ==
    <<
    \* "Unsupported"
      <<"U", "n", "s", "u", "p", "p", "o", "r", "t", "e", "d">>,
    \* "OK"
      <<"O", "K">>,
    \* "Critical"
      <<"C", "r", "i", "t", "i", "c", "a", "l">>,
    \* "Noncritical"
      <<"N", "o", "n", "c", "r", "i", "t", "i", "c", "a", "l">>,
    \* "Unrecoverable"
      <<"U", "n", "r", "e", "c", "o", "v", "e", "r", "a", "b", "l", "e">>,
    \* "Not installed"
      <<"N", "o", "t", " ", "i", "n", "s", "t", "a", "l", "l", "e", "d">>,
    \* "Unknown"
      <<"U", "n", "k", "n", "o", "w", "n">>,
    \* "Not available"
      <<"N", "o", "t", " ", "a", "v", "a", "i", "l", "a", "b", "l", "e">>,
    \* "No access allowed"
      <<"N", "o", " ", "a", "c", "c", "e", "s", "s", " ", "a", "l", "l", "o", "w",
       "e", "d">>,
    \* "reserved [9]"
      <<"r", "e", "s", "e", "r", "v", "e", "d", " ", "[", "9", "]">>,
    \* "reserved [10]"
      <<"r", "e", "s", "e", "r", "v", "e", "d", " ", "[", "1", "0", "]">>,
    \* "reserved [11]"
      <<"r", "e", "s", "e", "r", "v", "e", "d", " ", "[", "1", "1", "]">>,
    \* "reserved [12]"
      <<"r", "e", "s", "e", "r", "v", "e", "d", " ", "[", "1", "2", "]">>,
    \* "reserved [13]"
      <<"r", "e", "s", "e", "r", "v", "e", "d", " ", "[", "1", "3", "]">>,
    \* "reserved [14]"
      <<"r", "e", "s", "e", "r", "v", "e", "d", " ", "[", "1", "4", "]">>,
    \* "reserved [15]"
      <<"r", "e", "s", "e", "r", "v", "e", "d", " ", "[", "1", "5", "]">>>>
\* Element.status: the text of status_raw, which is bits 24-27 of an int value_raw
\* and the value_raw itself otherwise
ElementStatus(e) ==
    IF e.value_raw.is_int
    THEN STATUS_DESC[ToNat(BitAnd(ShiftRight(e.value_raw.n, 24), Bits(15))) + 1]
    ELSE e.value_raw.s

\* Enclosure._enclosure_element (status is unused by it): the element, or None
_enclosure_element(slot, name, value, desc, dev, ident, flt) ==
    IF name = Str.AudibleAlarm
    THEN Some(Element("AlarmElm", Str.AudibleAlarm, slot, value, desc, <<>>, ident, flt))
    ELSE IF name = Str.CommunicationPort
    THEN Some(Element("CommPort", Str.CommunicationPort, slot, value, desc, <<>>, ident, flt))
    ELSE IF name = Str.CurrentSensor
    THEN Some(Element("CurrSensor", Str.CurrentSensor, slot, value, desc, <<>>, ident, flt))
    ELSE IF name = Str.Enclosure
    THEN Some(Element("EnclosureElm", Str.Enclosure, slot, value, desc, <<>>, ident, flt))
    ELSE IF name = Str.VoltageSensor
    THEN Some(Element("VoltSensor", Str.VoltageSensor, slot, value, desc, <<>>, ident, flt))
    ELSE IF name = Str.Cooling
    THEN Some(Element("Cooling", Str.Cooling, slot, value, desc, <<>>, ident, flt))
    ELSE IF name = Str.TemperatureSensors
    THEN Some(Element("TempSensor", Str.TemperatureSensor, slot, value, desc, <<>>, ident, flt))
    ELSE IF name = Str.PowerSupply
    THEN Some(Element("PowerSupply", Str.PowerSupply, slot, value, desc, <<>>, ident, flt))
    ELSE IF name = Str.ArrayDeviceSlot
    THEN IF StartsWith(encname, Str.ECStream3U16_4R) /\ slot > 16 THEN None
         ELSE IF StartsWith(model, Str.R50comma) /\ slot >= 25 THEN None
         ELSE Some(ArrayDevSlot(slot, value, desc, dev, ident, flt))
    ELSE IF name = Str.SASConnector
    THEN Some(Element("SASConnector", Str.SASConnector, slot, value, desc, <<>>, ident, flt))
    ELSE IF name = Str.SASExpander
    THEN Some(Element("SASExpander", Str.SASExpander, slot, value, desc, <<>>, ident, flt))
    ELSE Some(Element("Element", name, slot, value, desc, <<>>, ident, flt))

(***************************************************************************)
(* Enclosure.map_disks_to_enclosure_slots                                  *)
(***************************************************************************)
\* a mutant: no directory is skipped
HSeriesIgnoreNone == {}
\* the directory names skipped on the H series (line 464)
HSeriesIgnore == {<<"4">>, <<"5">>, <<"6">>, <<"7">>}
\* int(text) succeeds (what sysfs writes is a run of digits, or no integer at all)
IsInt(text) == text # <<>> /\ \A i \in 1..Len(text) : text[i] \in DigitSet
\* mapping[k] = v
Put(mapping, k, v) ==
    [j \in DOMAIN mapping \cup {k} |-> IF j = k THEN v ELSE mapping[j]]
\* lines 476-483: the four attributes are readable and slot is an integer
IsSlotDir(i) ==
    /\ i.slot # None /\ IsInt(Strip(i.slot[1]))
    /\ i.status # None /\ i.locate # None /\ i.fault # None
\* lines 485-493: the entry of a slot directory
SlotEntry(i) ==
    [dev |-> IF i.block = None \/ i.block[1] = <<>> THEN <<>> ELSE i.block[1][1],
     slot_status |-> Strip(i.status[1]),
     ident |-> Strip(i.locate[1]),
     fault |-> Strip(i.fault[1])]
\* lines 466-493: the loop over the entries, in iteration order
RECURSIVE SysfsMapping(_, _, _)
SysfsMapping(dirs, is_hseries, mapping) ==
    IF dirs = <<>> THEN mapping
    ELSE LET i == Head(dirs)
         IN  IF ~i.is_dir THEN SysfsMapping(Tail(dirs), is_hseries, mapping)
             ELSE IF is_hseries /\ i.name \in HSeriesIgnore
             THEN SysfsMapping(Tail(dirs), is_hseries, mapping)
             ELSE IF ~IsSlotDir(i) THEN SysfsMapping(Tail(dirs), is_hseries, mapping)
             ELSE SysfsMapping(Tail(dirs), is_hseries,
                               Put(mapping, DecValue(Strip(i.slot[1])), SlotEntry(i)))
\* lines 495-500: slots that start at 0 are bumped by 1
\* a mutant: the slots keep their raw indexes
ShiftMappingNever(mapping) == mapping
ShiftMapping(mapping) ==
    IF Min(DOMAIN mapping) = 0
    THEN [k \in {j + 1 : j \in DOMAIN mapping} |-> mapping[k - 1]]
    ELSE mapping
\* lines 505-509: the SES status bytes of the array device slots with a descriptor
DiskRawValues(status, is_hseries) ==
    IF is_hseries THEN <<>>
    ELSE [k \in {j \in DOMAIN status : status[j].type = 23 /\ status[j].descriptor # "<empty>"}
            |-> status[k].status]
\* line 519: the bytes of a slot, [5, 0, 0, 0] when SES reports none
SlotRawValue(raw, slot) ==
    _parse_raw_value(IF slot \in DOMAIN raw THEN raw[slot] ELSE <<5, 0, 0, 0>>, FALSE)
\* a mutant: every slot gives an element
SlotElementKeepsAll(slot, entry, raw, is_hseries) ==
    IF is_hseries
    THEN Some(ArrayDevSlot(slot, StrValue(entry.slot_status), <<>>, entry.dev, entry.ident,
                           entry.fault))
    ELSE Some(ArrayDevSlot(slot, IntValue(SlotRawValue(raw, slot).value), <<>>, entry.dev,
                           None, None))
\* a mutant: the state of a slot comes from the SES bytes on every platform
SlotElementFromSes(slot, entry, raw, is_hseries) ==
    _enclosure_element(slot, Str.ArrayDeviceSlot, IntValue(SlotRawValue(raw, slot).value),
                       <<>>, entry.dev, None, None)
\* lines 512-523: the element of one slot, or None
SlotElement(slot, entry, raw, is_hseries) ==
    IF is_hseries
    THEN _enclosure_element(slot, Str.ArrayDeviceSlot, StrValue(entry.slot_status), <<>>,
                            entry.dev, entry.ident, entry.fault)
    ELSE _enclosure_element(slot, Str.ArrayDeviceSlot, IntValue(SlotRawValue(raw, slot).value),
                            <<>>, entry.dev, None, None)
\* lines 511-526: the elements appended, in ascending slot order
RECURSIVE SlotElements(_, _, _, _)
SlotElements(slots, mapping, raw, is_hseries) ==
    IF slots = {} THEN <<>>
    ELSE LET slot == Min(slots)
             info == SlotElement(slot, mapping[slot], raw, is_hseries)
         IN  (IF info # None THEN info ELSE <<>>)
             \o SlotElements(slots \ {slot}, mapping, raw, is_hseries)
\* line 402
IsHSeries(product) == product # <<>> /\ StartsWith(product, Str.TRUENAS_H)
\* the mapping after the shift (the function's return value), <<>> when there is none
DiskMapping(dirs, is_hseries) ==
    IF DOMAIN SysfsMapping(dirs, is_hseries, <<>>) = {} THEN <<>>
    ELSE ShiftMapping(SysfsMapping(dirs, is_hseries, <<>>))

(***************************************************************************)
(* Enclosure.__init__ and Enclosure._parse, one step per statement group   *)
(* and one per line of the status block.                                   *)
(***************************************************************************)
\* lines 395-401: the name, the logical id and the model
ParseConfig ==
    /\ pc = "init"
    /\ encname' = JoinWords(SplitWords(FirstLine(cf)))
    /\ encid' = IF SearchLogicalId(cf) # None THEN SearchLogicalId(cf)[1] ELSE encid
    /\ model' = _set_model(encname', product_name, cf).model
    /\ controller' = _set_model(encname', product_name, cf).controller
    /\ pc' = "map"
    /\ UNCHANGED <<product_name, cf, es, sysfs, ses_status, elements, element_type,
                   element_number, ln>>

\* lines 402-403: the array device slots, from sysfs and the SES status bytes
map_disks_to_enclosure_slots ==
    /\ pc = "map"
    /\ LET is_hseries == IsHSeries(product_name)
           mapping == DiskMapping(sysfs, is_hseries)
           raw == DiskRawValues(ses_status, is_hseries)
       IN  IF \E slot \in DOMAIN mapping : ~is_hseries /\ SlotRawValue(raw, slot).raised
           THEN /\ pc' = "raised"
                /\ UNCHANGED elements
           ELSE /\ elements' = elements \o SlotElements(DOMAIN mapping, mapping, raw, is_hseries)
                /\ pc' = "lines"
    /\ UNCHANGED <<product_name, cf, es, sysfs, ses_status, encname, encid, model,
                   controller, element_type, element_number, ln>>

\* the line the loop of line 407 is at
Line == es[ln + 1]
AtLine == pc = "lines" /\ ln < Len(es)
EncUnchanged ==
    UNCHANGED <<product_name, cf, es, sysfs, ses_status, encname, encid, model, controller>>

\* lines 408-419: an "Element type:" header
ParseTypeLine ==
    /\ AtLine
    /\ MatchTypeLine(Line) # None
    /\ element_type' = Some(ElementTypeName(MatchTypeLine(Line)[1]))
    /\ element_number' = None
    /\ ln' = ln + 1
    /\ UNCHANGED <<elements, pc>>
    /\ EncUnchanged

\* lines 420-421: an "Element N descriptor:" line
ParseDescLine ==
    /\ AtLine
    /\ MatchTypeLine(Line) = None
    /\ MatchDescLine(Line) # None
    /\ element_number' = Some(DecValue(MatchDescLine(Line)[1]))
    /\ ln' = ln + 1
    /\ UNCHANGED <<element_type, elements, pc>>
    /\ EncUnchanged

\* a mutant: a line of bytes under any header gives an element
AllKnownAnyType(type, number) ==
    /\ TruthyStr(type)
    /\ TruthyInt(number)
\* line 423
AllKnown(type, number) ==
    /\ TruthyStr(type)
    /\ TruthyInt(number)
    /\ type # Some(Str.ArrayDeviceSlot)

\* lines 422-435: a line of byte pairs
ParseHexLine ==
    /\ AtLine
    /\ MatchTypeLine(Line) = None
    /\ MatchDescLine(Line) = None
    /\ MatchHexLine(Line) # None
    /\ IF AllKnown(element_type, element_number)
       THEN LET value == _parse_raw_value(MatchHexLine(Line)[1], TRUE)
                element == _enclosure_element(element_number[1] + 1, element_type[1],
                                              IntValue(value.value), <<>>, <<>>, None, None)
            IN  IF value.raised
                THEN /\ pc' = "raised"
                     /\ UNCHANGED <<elements, element_number, ln>>
                ELSE /\ elements' = IF element # None THEN elements \o element ELSE elements
                     /\ element_number' = None
                     /\ ln' = ln + 1
                     /\ pc' = pc
       ELSE /\ element_number' = None
            /\ ln' = ln + 1
            /\ UNCHANGED <<elements, pc>>
    /\ UNCHANGED element_type
    /\ EncUnchanged

\* lines 436-437: any other line
\* a mutant: an unrecognized line clears the type as well
ParseOtherLineClearsType ==
    /\ AtLine
    /\ MatchTypeLine(Line) = None
    /\ MatchDescLine(Line) = None
    /\ MatchHexLine(Line) = None
    /\ element_number' = None
    /\ element_type' = None
    /\ ln' = ln + 1
    /\ UNCHANGED <<elements, pc>>
    /\ EncUnchanged
ParseOtherLine ==
    /\ AtLine
    /\ MatchTypeLine(Line) = None
    /\ MatchDescLine(Line) = None
    /\ MatchHexLine(Line) = None
    /\ element_number' = None
    /\ ln' = ln + 1
    /\ UNCHANGED <<element_type, elements, pc>>
    /\ EncUnchanged

\* the loop ends: the constructor returns the enclosure
ParseReturn ==
    /\ pc = "lines"
    /\ ln = Len(es)
    /\ pc' = "done"
    /\ UNCHANGED <<element_type, element_number, elements, ln>>
    /\ EncUnchanged

(***************************************************************************)
(* Inputs.                                                                 *)
(***************************************************************************)
\* status lines
\* texts an Enclosure is constructed from: status lines, configuration lines,
\* product names and sysfs attribute values
Inp ==
    \* "  Element type: Cooling, subenclosure id: 0"
    [l_TypeCooling |-> <<" ", " ", "E", "l", "e", "m", "e", "n", "t", " ", "t", "y",
                         "p", "e", ":", " ", "C", "o", "o", "l", "i", "n", "g", ",",
                         " ", "s", "u", "b", "e", "n", "c", "l", "o", "s", "u", "r",
                         "e", " ", "i", "d", ":", " ", "0">>,
    \* "  Element type: Array device slot, subenclosure id: 0"
     l_TypeArray |-> <<" ", " ", "E", "l", "e", "m", "e", "n", "t", " ", "t", "y", "p",
                       "e", ":", " ", "A", "r", "r", "a", "y", " ", "d", "e", "v", "i",
                       "c", "e", " ", "s", "l", "o", "t", ",", " ", "s", "u", "b", "e",
                       "n", "c", "l", "o", "s", "u", "r", "e", " ", "i", "d", ":", " ",
                       "0">>,
    \* "  Element type: Temperature sensor, subenclosure id: 0"
     l_TypeTemp |-> <<" ", " ", "E", "l", "e", "m", "e", "n", "t", " ", "t", "y", "p",
                      "e", ":", " ", "T", "e", "m", "p", "e", "r", "a", "t", "u", "r",
                      "e", " ", "s", "e", "n", "s", "o", "r", ",", " ", "s", "u", "b",
                      "e", "n", "c", "l", "o", "s", "u", "r", "e", " ", "i", "d", ":",
                      " ", "0">>,
    \* "    Element 0 descriptor: Fan1"
     l_Desc0 |-> <<" ", " ", " ", " ", "E", "l", "e", "m", "e", "n", "t", " ", "0", " ",
                   "d", "e", "s", "c", "r", "i", "p", "t", "o", "r", ":", " ", "F", "a",
                   "n", "1">>,
    \* "    Element 1 descriptor: Fan2"
     l_Desc1 |-> <<" ", " ", " ", " ", "E", "l", "e", "m", "e", "n", "t", " ", "1", " ",
                   "d", "e", "s", "c", "r", "i", "p", "t", "o", "r", ":", " ", "F", "a",
                   "n", "2">>,
    \* "    01 00 02 20"
     l_Hex |-> <<" ", " ", " ", " ", "0", "1", " ", "0", "0", " ", "0", "2", " ", "2",
                 "0">>,
    \* "    11 00 5a a0"
     l_HexB |-> <<" ", " ", " ", " ", "1", "1", " ", "0", "0", " ", "5", "a", " ", "a",
                  "0">>,
    \* "            "
     l_Blank |-> <<" ", " ", " ", " ", " ", " ", " ", " ", " ", " ", " ", " ">>,
    \* "    0 0 0 0 0 0"
     l_HexSix |-> <<" ", " ", " ", " ", "0", " ", "0", " ", "0", " ", "0", " ", "0",
                    " ", "0">>,
    \* "    Overall descriptor: <empty>"
     l_Overall |-> <<" ", " ", " ", " ", "O", "v", "e", "r", "a", "l", "l", " ", "d",
                     "e", "s", "c", "r", "i", "p", "t", "o", "r", ":", " ", "<", "e",
                     "m", "p", "t", "y", ">">>,
    \* "ECStream  3U16+4R-4X6G.3  d10c"
     cf_E16 |-> <<"E", "C", "S", "t", "r", "e", "a", "m", " ", " ", "3", "U", "1", "6",
                  "+", "4", "R", "-", "4", "X", "6", "G", ".", "3", " ", " ", "d", "1",
                  "0", "c">>,
    \* "iX  eDrawer4048S1  0404"
     cf_R50 |-> <<"i", "X", " ", " ", "e", "D", "r", "a", "w", "e", "r", "4", "0", "4",
                  "8", "S", "1", " ", " ", "0", "4", "0", "4">>,
    \* "BROADCOM  VirtualSES  03"
     cf_HSeries |-> <<"B", "R", "O", "A", "D", "C", "O", "M", " ", " ", "V", "i", "r",
                      "t", "u", "a", "l", "S", "E", "S", " ", " ", "0", "3">>,
    \* "Vendor Model"
     cf_Vendor |-> <<"V", "e", "n", "d", "o", "r", " ", "M", "o", "d", "e", "l">>,
    \* "  enclosure logical identifier (hex): abc123"
     cf_IdLine |-> <<" ", " ", "e", "n", "c", "l", "o", "s", "u", "r", "e", " ", "l",
                     "o", "g", "i", "c", "a", "l", " ", "i", "d", "e", "n", "t", "i",
                     "f", "i", "e", "r", " ", "(", "h", "e", "x", ")", ":", " ", "a",
                     "b", "c", "1", "2", "3">>,
    \* "TRUENAS-R50"
     p_R50 |-> <<"T", "R", "U", "E", "N", "A", "S", "-", "R", "5", "0">>,
    \* "TRUENAS-H10"
     p_H10 |-> <<"T", "R", "U", "E", "N", "A", "S", "-", "H", "1", "0">>,
    \* "TRUENAS-M40"
     p_M40 |-> <<"T", "R", "U", "E", "N", "A", "S", "-", "M", "4", "0">>,
    \* "OK"
     t_OK |-> <<"O", "K">>,
    \* "sda"
     t_sda |-> <<"s", "d", "a">>,
    \* "sdb"
     t_sdb |-> <<"s", "d", "b">>]

SampleLines ==
    {Inp.l_TypeCooling, Inp.l_TypeArray, Inp.l_Desc0, Inp.l_Desc1, Inp.l_Hex,
     Inp.l_HexB, Inp.l_Blank, Inp.l_HexSix, Inp.l_Overall}
\* one block holding every line shape
SampleBlock == <<Inp.l_TypeTemp, Inp.l_Desc1, Inp.l_Hex, Inp.l_Overall>>
\* the sequences over S of length at most n
SeqsUpTo(S, n) == UNION {[1..k -> S] : k \in 0..n}
\* the sequences of distinct members of S of length at most n
DistinctSeqsUpTo(S, n) ==
    {q \in SeqsUpTo(S, n) : \A i, j \in 1..Len(q) : i # j => q[i] # q[j]}

\* configuration blocks and product names

ConfigBlock(first) == first \o <<"\n">> \o Inp.cf_IdLine \o <<"\n">>
SampleConfigs == {ConfigBlock(Inp.cf_E16), ConfigBlock(Inp.cf_R50), ConfigBlock(Inp.cf_HSeries),
                  ConfigBlock(Inp.cf_Vendor)}
SampleProducts == {Inp.p_R50, Inp.p_H10, Inp.p_M40}

\* entries of /sys/class/enclosure/<pci>
Attr(text) == Some(text \o <<"\n">>)
SlotDir(name, slot, locate, flt, block) ==
    [name |-> name, is_dir |-> TRUE, slot |-> Attr(slot), status |-> Attr(Inp.t_OK),
     locate |-> Attr(locate), fault |-> Attr(flt), block |-> block]
\* a directory without a slot attribute, and a plain file
OtherDir(name) ==
    [name |-> name, is_dir |-> TRUE, slot |-> None, status |-> None, locate |-> None,
     fault |-> None, block |-> None]
PlainFile(name) ==
    [name |-> name, is_dir |-> FALSE, slot |-> None, status |-> None, locate |-> None,
     fault |-> None, block |-> None]
SampleDirs ==
    {SlotDir(<<"0">>, <<"0">>, <<"0">>, <<"0">>, Some(<<Inp.t_sda>>)),
     SlotDir(<<"1">>, <<"1">>, <<"1">>, <<"0">>, None),
     SlotDir(<<"4">>, <<"4">>, <<"0">>, <<"1">>, Some(<<Inp.t_sdb>>)),
     SlotDir(<<"1", "6">>, <<"1", "6">>, <<"0">>, <<"0">>, Some(<<>>)),
     SlotDir(<<"2", "4">>, <<"2", "4">>, <<"0">>, <<"0">>, None),
     SlotDir(<<"2", "0">>, <<"2", "0">>, <<"0">>, <<"0">>, Some(<<Inp.t_sdb>>)),
     SlotDir(<<"S", "l", "o", "t", " ", "0", "5">>, <<"5">>, <<"0">>, <<"0">>, None),
     OtherDir(<<"p", "o", "w", "e", "r">>),
     PlainFile(<<"i", "d">>)}

\* SES status pages: element index -> type, descriptor, four status bytes
SesElement(type, descriptor, status) ==
    [type |-> type, descriptor |-> descriptor, status |-> status]
SampleSesStatus ==
    {<<>>,
     [k \in 1..5 |-> IF k = 1 THEN SesElement(23, "Disk #01", <<1, 0, 2, 0>>)
                     ELSE IF k = 2 THEN SesElement(23, "<empty>", <<1, 0, 0, 32>>)
                     ELSE IF k = 5 THEN SesElement(23, "Disk #05", <<1, 0, 0, 32>>)
                     ELSE SesElement(2, "PSU", <<1, 0, 0, 0>>)]}

\* Enclosure.__init__ (lines 380-391) before _parse
InitEnclosure(configs, products, blocks, dirs, statuses) ==
    /\ product_name \in products
    /\ cf \in configs
    /\ es \in blocks
    /\ sysfs \in dirs
    /\ ses_status \in statuses
    /\ encname = <<>>
    /\ encid = <<>>
    /\ model = <<>>
    /\ controller = FALSE
    /\ elements = <<>>
    /\ element_type = None
    /\ element_number = None
    /\ ln = 0
    /\ pc = "init"


(***************************************************************************)
(* One call of Enclosure._parse_raw_value on four status bytes.            *)
(***************************************************************************)
VARIABLES
    value,              \* the argument: a list of four bytes
    newvalue            \* what the call returned, None before it has

rawVars == <<value, newvalue>>

\* the call and its return
ParseRawValue ==
    /\ value # None
    /\ newvalue = None
    /\ newvalue' = Some(_parse_raw_value(value, FALSE))
    /\ UNCHANGED value

\* four bytes, one of them any byte and the others 0x00, 0x5a or 0xff
SampleBytes ==
    {[j \in 1..4 |-> IF j = i THEN b ELSE others[j]] :
        i \in 1..4, b \in 0..255, others \in [1..4 -> {0, 90, 255}]}
InitRaw ==
    /\ value \in SampleBytes
    /\ newvalue = None
IdleRaw ==
    /\ value = None
    /\ newvalue = None

(***************************************************************************)
(* EnclosureService.set_slot_status                                        *)
(***************************************************************************)

\* str(n) and repr(n) of an int, repr(s) of a str without quotes in it
RECURSIVE NatToStr(_)
NatToStr(n) ==
    IF n < 10 THEN <<Digits[n + 1]>> ELSE NatToStr(n \div 10) \o <<Digits[(n % 10) + 1]>>
IntToStr(n) == IF n < 0 THEN <<"-">> \o NatToStr(0 - n) ELSE NatToStr(n)
ReprStr(s) == <<"'">> \o s \o <<"'">>

\* the ids of line 234
FSeriesIdsWithoutF130 == {Str.f60_nvme_enclosure, Str.f100_nvme_enclosure}
FSeriesIds == {Str.f60_nvme_enclosure, Str.f100_nvme_enclosure, Str.f130_nvme_enclosure}

\* the table of lines 244-248
sysfs_to_ui_fifteen ==
    (1 :> <<"8">>) @@ (2 :> <<"9">>) @@ (3 :> <<"1", "0">>) @@ (4 :> <<"1", "1">>)
    @@ (5 :> <<"1", "2">>) @@ (6 :> <<"1", "3">>) @@ (7 :> <<"1", "4">>) @@ (8 :> <<"1", "5">>)
    @@ (9 :> <<"0">>) @@ (10 :> <<"1">>) @@ (11 :> <<"2">>) @@ (12 :> <<"3">>)
    @@ (13 :> <<"4">>) @@ (14 :> <<"5">>) @@ (15 :> <<"6">>)
sysfs_to_ui ==
    (1 :> <<"8">>) @@ (2 :> <<"9">>) @@ (3 :> <<"1", "0">>) @@ (4 :> <<"1", "1">>)
    @@ (5 :> <<"1", "2">>) @@ (6 :> <<"1", "3">>) @@ (7 :> <<"1", "4">>) @@ (8 :> <<"1", "5">>)
    @@ (9 :> <<"0">>) @@ (10 :> <<"1">>) @@ (11 :> <<"2">>) @@ (12 :> <<"3">>)

\* the concatenation of the sequences of a sequence
RECURSIVE Flatten(_)
Flatten(seqs) == IF seqs = <<>> THEN <<>> ELSE Head(seqs) \o Flatten(Tail(seqs))
\* the elements the two loops of lines 217-218 visit, in order
SlotMatches(slot, info) ==
    LET IsArray(i) == i.name = Str.ArrayDeviceSlot
        groups == SelectSeq(info.elements, IsArray)
        HasSlot(j) == j.slot = slot
    IN  Flatten([g \in 1..Len(groups) |-> SelectSeq(groups[g].elements, HasSlot)])
Original(bsg, slot) == [bsg |-> bsg, slot |-> slot]
\* a mutant: the display handle and slot, whatever the enclosure
_get_orig_enclosure_and_disk_display(enclosure_id, slot, info) ==
    IF SlotMatches(slot, info) = <<>> THEN None ELSE Some(Original(info.bsg, slot))
\* EnclosureService._get_orig_enclosure_and_disk: (bsg, slot), or None
_get_orig_enclosure_and_disk(enclosure_id, slot, info) ==
    IF SlotMatches(slot, info) = <<>> THEN None
    ELSE LET j == SlotMatches(slot, info)[1]
         IN  IF enclosure_id = Str.mapped_enclosure_0
             THEN Some(Original(j.original[1].enclosure_bsg, j.original[1].slot))
             ELSE Some(Original(info.bsg, slot))

\* a mutant: CLEAR clears the identify indicator only
ControlActionsClearIdent(status) ==
    IF status = Str.CLEAR THEN <<Str.clear_ident>>
    ELSE <<Str.set_ \o LowerStr(SubSeq(status, 1, 5))>>
\* lines 268-271: the actions of a status
ControlActions(status) ==
    IF status = Str.CLEAR THEN <<Str.clear_ident, Str.clear_fault>>
    ELSE <<Str.set_ \o LowerStr(SubSeq(status, 1, IF Len(status) < 5 THEN Len(status) ELSE 5))>>

\* CallError(message, errno); errno is "" when the call gives none
CallError(msg, errno) == [exc |-> "CallError", errno |-> errno, msg |-> msg]
NoError == [exc |-> "", errno |-> "", msg |-> <<>>]
\* the messages of lines 241, 250/258/264 and 278
EnclosureNotFoundMsg(enclosure_id) ==
    Str.EnclosureWithId \o ReprStr(enclosure_id) \o Str.NotFound
SlotNotFoundMsg(slot) == Str.SlotColon \o IntToStr(slot) \o Str.NotFound
FailedMsg(status, slot, id) ==
    Str.FailedTo \o status \o Str.Slot_ \o IntToStr(slot) \o Str.OnEnclosure \o ReprStr(id)

VARIABLES
    \* the arguments
    enclosure_id, slot, status,
    \* what enclosure.query returns without a filter
    enclosures,
    \* the locals
    info,               \* the enclosure queried, None before the query
    original,           \* (original_bsg, original_slot), None before it is resolved
    actions,            \* the actions to issue
    issued,             \* how many of them the loop of line 275 has issued
    \* what the call has done
    queries,            \* the number of enclosure.query calls
    nvme_calls,         \* the calls of r30_set_slot_status and fseries_set_slot_status
    sysfs_calls,        \* the calls of toggle_enclosure_slot_identifier
    control_calls,      \* the calls of EnclosureDevice.set_control
    result,             \* the exception raised, NoError when the call returns
    cpc                 \* "idle", "call", "control" or "done"

ctlVars == <<enclosure_id, slot, status, enclosures, info, original, actions, issued,
             queries, nvme_calls, sysfs_calls, control_calls, result, cpc>>

ArgsUnchanged == UNCHANGED <<enclosure_id, slot, status, enclosures>>
\* the call ends, with an exception or without
Ends(r) == result' = r /\ cpc' = "done"

\* lines 231-233
CallR30 ==
    /\ cpc = "call"
    /\ enclosure_id = Str.r30_nvme_enclosure
    /\ nvme_calls' = Append(nvme_calls, [fn |-> "r30_set_slot_status", slot |-> slot,
                                         status |-> status])
    /\ Ends(NoError)
    /\ UNCHANGED <<info, original, actions, issued, queries, sysfs_calls, control_calls>>
    /\ ArgsUnchanged

\* lines 234-236
CallFSeries ==
    /\ cpc = "call"
    /\ enclosure_id # Str.r30_nvme_enclosure
    /\ enclosure_id \in FSeriesIds
    /\ nvme_calls' = Append(nvme_calls, [fn |-> "fseries_set_slot_status", slot |-> slot,
                                         status |-> status])
    /\ Ends(NoError)
    /\ UNCHANGED <<info, original, actions, issued, queries, sysfs_calls, control_calls>>
    /\ ArgsUnchanged

\* line 239: enclosure.query with [["id", "=", enclosure_id]]
Queried ==
    LET HasId(e) == e.id = enclosure_id
    IN  SelectSeq(enclosures, HasId)
\* the call reaches line 238
Queries ==
    /\ cpc = "call"
    /\ enclosure_id # Str.r30_nvme_enclosure
    /\ enclosure_id \notin FSeriesIds
    /\ queries' = queries + 1

\* lines 238-241: no enclosure has the id
EnclosureNotFound ==
    /\ Queries
    /\ Queried = <<>>
    /\ Ends(CallError(EnclosureNotFoundMsg(enclosure_id), "ENOENT"))
    /\ UNCHANGED <<info, original, actions, issued, nvme_calls, sysfs_calls, control_calls>>
    /\ ArgsUnchanged

\* lines 243-250: the H series, a slot the table does not hold
HSeriesSlotNotFound ==
    /\ Queries
    /\ Queried # <<>>
    /\ Queried[1].model = Str.HSeries
    /\ slot \notin DOMAIN sysfs_to_ui
    /\ info' = Some(Queried[1])
    /\ Ends(CallError(SlotNotFoundMsg(slot), "ENOENT"))
    /\ UNCHANGED <<original, actions, issued, nvme_calls, sysfs_calls, control_calls>>
    /\ ArgsUnchanged

\* line 256
ToggleCall(raised) ==
    [sysfs_path |-> Str.sys_class_enclosure_ \o RemovePrefix(Queried[1].bsg, Str.bsg_),
     mapped_slot |-> sysfs_to_ui[slot], status |-> status, by_dev |-> TRUE,
     raised |-> raised]

\* lines 243-260: the H series, the toggle returns
HSeriesToggle ==
    /\ Queries
    /\ Queried # <<>>
    /\ Queried[1].model = Str.HSeries
    /\ slot \in DOMAIN sysfs_to_ui
    /\ info' = Some(Queried[1])
    /\ sysfs_calls' = Append(sysfs_calls, ToggleCall(FALSE))
    /\ Ends(NoError)
    /\ UNCHANGED <<original, actions, issued, nvme_calls, control_calls>>
    /\ ArgsUnchanged

\* lines 255-258: the H series, the toggle raises FileNotFoundError
HSeriesToggleFileNotFound ==
    /\ Queries
    /\ Queried # <<>>
    /\ Queried[1].model = Str.HSeries
    /\ slot \in DOMAIN sysfs_to_ui
    /\ info' = Some(Queried[1])
    /\ sysfs_calls' = Append(sysfs_calls, ToggleCall(TRUE))
    /\ Ends(CallError(SlotNotFoundMsg(slot), "ENOENT"))
    /\ UNCHANGED <<original, actions, issued, nvme_calls, control_calls>>
    /\ ArgsUnchanged

\* lines 262-264: no original enclosure and slot
OriginalNotFound ==
    /\ Queries
    /\ Queried # <<>>
    /\ Queried[1].model # Str.HSeries
    /\ _get_orig_enclosure_and_disk(enclosure_id, slot, Queried[1]) = None
    /\ info' = Some(Queried[1])
    /\ Ends(CallError(SlotNotFoundMsg(slot), "ENOENT"))
    /\ UNCHANGED <<original, actions, issued, nvme_calls, sysfs_calls, control_calls>>
    /\ ArgsUnchanged

\* lines 262-273: the original enclosure and slot, the actions and the device
OpenDevice ==
    /\ Queries
    /\ Queried # <<>>
    /\ Queried[1].model # Str.HSeries
    /\ _get_orig_enclosure_and_disk(enclosure_id, slot, Queried[1]) # None
    /\ info' = Some(Queried[1])
    /\ original' = _get_orig_enclosure_and_disk(enclosure_id, slot, Queried[1])
    /\ actions' = ControlActions(status)
    /\ issued' = 0
    /\ cpc' = "control"
    /\ UNCHANGED <<nvme_calls, sysfs_calls, control_calls, result>>
    /\ ArgsUnchanged

\* line 276: enc.set_control(str(original_slot - 1), action)
ControlCall(raised) ==
    [dev |-> Str.dev_ \o original[1].bsg, slot |-> IntToStr(original[1].slot - 1),
     action |-> actions[issued + 1], raised |-> raised]

\* lines 275-276: an action, and set_control returns
SetControl ==
    /\ cpc = "control"
    /\ issued < Len(actions)
    /\ control_calls' = Append(control_calls, ControlCall(FALSE))
    /\ issued' = issued + 1
    /\ UNCHANGED <<info, original, actions, queries, nvme_calls, sysfs_calls, result, cpc>>
    /\ ArgsUnchanged

\* a mutant: the failure is logged and the loop goes on
SetControlOSErrorIgnored ==
    /\ cpc = "control"
    /\ issued < Len(actions)
    /\ control_calls' = Append(control_calls, ControlCall(TRUE))
    /\ issued' = issued + 1
    /\ UNCHANGED <<info, original, actions, queries, nvme_calls, sysfs_calls, result, cpc>>
    /\ ArgsUnchanged
\* lines 277-280: an action, and set_control raises OSError
SetControlOSError ==
    /\ cpc = "control"
    /\ issued < Len(actions)
    /\ control_calls' = Append(control_calls, ControlCall(TRUE))
    /\ Ends(CallError(FailedMsg(status, slot, info[1].id), ""))
    /\ UNCHANGED <<info, original, actions, issued, queries, nvme_calls, sysfs_calls>>
    /\ ArgsUnchanged

\* the loop is over: the call returns
SetSlotStatusReturn ==
    /\ cpc = "control"
    /\ issued = Len(actions)
    /\ Ends(NoError)
    /\ UNCHANGED <<info, original, actions, issued, queries, nvme_calls, sysfs_calls,
                   control_calls>>
    /\ ArgsUnchanged

\* the largest slot argument
MaxSlotArg == 13

\* enclosures as enclosure.query returns them: the fields set_slot_status reads
\* texts of the enclosures enclosure.query returns: ids, bsg handles, models
Qry ==
    \* "5000c500"
    [id_Shelf |-> <<"5", "0", "0", "0", "c", "5", "0", "0">>,
    \* "5b0bd6d1"
     id_Head |-> <<"5", "b", "0", "b", "d", "6", "d", "1">>,
    \* "500e0eca"
     id_Drawer |-> <<"5", "0", "0", "e", "0", "e", "c", "a">>,
    \* "50000000"
     id_Bare |-> <<"5", "0", "0", "0", "0", "0", "0", "0">>,
    \* "deadbeef"
     id_Absent |-> <<"d", "e", "a", "d", "b", "e", "e", "f">>,
    \* "bsg/0:0:0:0"
     bsg_Shelf |-> <<"b", "s", "g", "/", "0", ":", "0", ":", "0", ":", "0">>,
    \* "bsg/1:0:0:0"
     bsg_Head |-> <<"b", "s", "g", "/", "1", ":", "0", ":", "0", ":", "0">>,
    \* "bsg/2:0:0:0"
     bsg_Mapped |-> <<"b", "s", "g", "/", "2", ":", "0", ":", "0", ":", "0">>,
    \* "bsg/3:0:0:0"
     bsg_Drawer |-> <<"b", "s", "g", "/", "3", ":", "0", ":", "0", ":", "0">>,
    \* "bsg/4:0:0:0"
     bsg_Bare |-> <<"b", "s", "g", "/", "4", ":", "0", ":", "0", ":", "0">>,
    \* "R50"
     m_R50 |-> <<"R", "5", "0">>,
    \* "iX 4024Sp"
     n_M |-> <<"i", "X", " ", "4", "0", "2", "4", "S", "p">>,
    \* "iX eDrawer4048S1"
     n_Drawer1 |-> <<"i", "X", " ", "e", "D", "r", "a", "w", "e", "r", "4", "0", "4", "8",
                     "S", "1">>,
    \* "iX eDrawer4048S2"
     n_Drawer2 |-> <<"i", "X", " ", "e", "D", "r", "a", "w", "e", "r", "4", "0", "4", "8",
                     "S", "2">>,
    \* "Vendor eDrawer4048S1"
     n_Marked |-> <<"V", "e", "n", "d", "o", "r", " ", "e", "D", "r", "a", "w", "e", "r",
                    "4", "0", "4", "8", "S", "1">>,
    \* "R30 NVMe"
     n_Nvme |-> <<"R", "3", "0", " ", "N", "V", "M", "e">>]

QueryElement(n, orig) == [slot |-> n, original |-> orig]
OriginalOf(id, bsg, n) == Some([enclosure_id |-> id, enclosure_bsg |-> bsg, slot |-> n])
ElementGroup(name, elems) == [name |-> name, elements |-> elems]
info_Shelf ==
    [id |-> Qry.id_Shelf, bsg |-> Qry.bsg_Shelf, model |-> Str.ES24,
     elements |-> <<ElementGroup(Str.Cooling, <<QueryElement(1, None), QueryElement(3, None)>>),
                    ElementGroup(Str.ArrayDeviceSlot,
                                 <<QueryElement(1, None), QueryElement(2, None),
                                   QueryElement(5, None)>>)>>]
info_Head ==
    [id |-> Qry.id_Head, bsg |-> Qry.bsg_Head, model |-> Str.HSeries,
     elements |-> <<ElementGroup(Str.ArrayDeviceSlot,
                                 <<QueryElement(1, None), QueryElement(2, None)>>)>>]
info_Mapped ==
    [id |-> Str.mapped_enclosure_0, bsg |-> Qry.bsg_Mapped, model |-> Qry.m_R50,
     elements |-> <<ElementGroup(Str.ArrayDeviceSlot,
                                 <<QueryElement(1, OriginalOf(Qry.id_Drawer, Qry.bsg_Drawer, 5)),
                                   QueryElement(2, OriginalOf(Qry.id_Drawer, Qry.bsg_Drawer, 1)),
                                   QueryElement(5, OriginalOf(Qry.id_Shelf, Qry.bsg_Shelf, 2))>>)>>]
info_Bare == [id |-> Qry.id_Bare, bsg |-> Qry.bsg_Bare, model |-> <<>>, elements |-> <<>>]
SampleCollections ==
    {<<info_Shelf, info_Head, info_Mapped, info_Bare>>, <<info_Mapped, info_Head>>}
SampleIds ==
    {Str.r30_nvme_enclosure, Str.f60_nvme_enclosure, Str.f100_nvme_enclosure,
     Str.f130_nvme_enclosure, Str.mapped_enclosure_0, Qry.id_Shelf, Qry.id_Head,
     Qry.id_Bare, Qry.id_Absent}
Statuses == {Str.CLEAR, Str.FAULT, Str.IDENTIFY}

InitSlotStatus ==
    /\ enclosure_id \in SampleIds
    /\ slot \in 0..MaxSlotArg
    /\ status \in Statuses
    /\ enclosures \in SampleCollections
    /\ info = None
    /\ original = None
    /\ actions = <<>>
    /\ issued = 0
    /\ queries = 0
    /\ nvme_calls = <<>>
    /\ sysfs_calls = <<>>
    /\ control_calls = <<>>
    /\ result = NoError
    /\ cpc = "call"
IdleSlotStatus ==
    /\ enclosure_id = <<>>
    /\ slot = 0
    /\ status = <<>>
    /\ enclosures = <<>>
    /\ info = None
    /\ original = None
    /\ actions = <<>>
    /\ issued = 0
    /\ queries = 0
    /\ nvme_calls = <<>>
    /\ sysfs_calls = <<>>
    /\ control_calls = <<>>
    /\ result = NoError
    /\ cpc = "idle"
\* no Enclosure is under construction
IdleEnclosure ==
    /\ product_name = <<>>
    /\ cf = <<>>
    /\ es = <<>>
    /\ sysfs = <<>>
    /\ ses_status = <<>>
    /\ encname = <<>>
    /\ encid = <<>>
    /\ model = <<>>
    /\ controller = FALSE
    /\ elements = <<>>
    /\ element_type = None
    /\ element_number = None
    /\ ln = 0
    /\ pc = "idle"

(***************************************************************************)
(* EnclosureService.query                                                  *)
(***************************************************************************)
\* the characters of the ids, in code point order, the order of str comparison
CodePoints ==
    <<" ", "-", ".">> \o Digits \o Uppercase \o <<"_">> \o Lowercase
Ord(c) == CHOOSE i \in 1..Len(CodePoints) : CodePoints[i] = c
\* a < b of two str
RECURSIVE StrLess(_, _)
StrLess(a, b) ==
    IF b = <<>> THEN FALSE
    ELSE IF a = <<>> THEN TRUE
    ELSE IF a[1] = b[1] THEN StrLess(Tail(a), Tail(b))
    ELSE Ord(a[1]) < Ord(b[1])

\* lines 95-110: the dict of one element (its columns other than Device, its
\* status and its value are texts the collection does not depend on)
ElementDict(elem) ==
    [slot |-> elem.slot, name |-> elem.name, descriptor |-> elem.descriptor,
     Device |-> IF elem.cls = "ArrayDevSlot" THEN Some(elem.devname) ELSE None,
     fault |-> IF elem.cls = "ArrayDevSlot" THEN Some(fault(elem)) ELSE None,
     identify |-> IF elem.cls = "ArrayDevSlot" THEN Some(identify(elem)) ELSE None]
\* lines 88-121: the groups of iter_by_name(), the names in sorted order
RECURSIVE ElementGroups(_, _)
ElementGroups(elems, names) ==
    IF names = {} THEN <<>>
    ELSE LET name == CHOOSE a \in names : \A b \in names : a = b \/ StrLess(a, b)
             InGroup(e) == e.name = name
             group == SelectSeq(elems, InGroup)
         IN  <<[name |-> name,
                elements |-> [i \in 1..Len(group) |-> ElementDict(group[i])],
                has_slot_status |-> \E i \in 1..Len(group) : group[i].cls = "ArrayDevSlot"]>>
             \o ElementGroups(elems, names \ {name})
\* lines 79-121: the dict of one Enclosure
EnclosureDict(enc) ==
    [id |-> enc.encid, bsg |-> enc.devname, name |-> enc.encname, model |-> enc.model,
     controller |-> enc.controller,
     elements |-> ElementGroups(enc.elements,
                                {enc.elements[i].name : i \in 1..Len(enc.elements)})]
\* lines 122-126: the list after one more enclosure
Collect(list, enclosure) ==
    IF Contains(enclosure.name, Str.eDrawer4048S1) THEN <<enclosure>> \o list
    ELSE Append(list, enclosure)
\* line 129, enclosure.map_enclosures: the list as it is, or with the enclosures
\* of a drawer platform mapped into one that stands first
MapEnclosures(list) ==
    LET IsDrawer(e) == Contains(e.name, Str.iXeDrawer4048S)
        IsOther(e) == ~Contains(e.name, Str.iXeDrawer4048S)
        drawers == SelectSeq(list, IsDrawer)
    IN  {list} \cup
        (IF drawers = <<>> THEN {}
         ELSE {<<[id |-> Str.mapped_enclosure_0, bsg |-> drawers[1].bsg,
                  name |-> <<"D", "r", "i", "v", "e", " ", "B", "a", "y", "s">>,
                  model |-> drawers[1].model, controller |-> TRUE,
                  elements |-> drawers[1].elements]>> \o SelectSeq(list, IsOther)})
\* lines 131-139: the number and the label of every enclosure
NumberAndLabel(list, labels) ==
    [i \in 1..Len(list) |->
        [id |-> list[i].id, bsg |-> list[i].bsg, name |-> list[i].name,
         model |-> list[i].model, controller |-> list[i].controller,
         elements |-> list[i].elements, number |-> i - 1,
         label |-> IF list[i].id \in DOMAIN labels /\ labels[list[i].id] # <<>>
                   THEN labels[list[i].id] ELSE list[i].name]]
\* a mutant: the key is the id alone
SortKeyLEById(x, y) == x.id = y.id \/ StrLess(x.id, y.id)
\* line 141: key(x) <= key(y) of the key (0 if controller else 1, id)
SortKeyLE(x, y) ==
    LET kx == IF x.controller THEN 0 ELSE 1
        ky == IF y.controller THEN 0 ELSE 1
    IN  kx < ky \/ (kx = ky /\ (x.id = y.id \/ StrLess(x.id, y.id)))
\* line 141: sorted(), which is stable
RECURSIVE Sorted(_)
Sorted(list) ==
    IF list = <<>> THEN <<>>
    ELSE LET rest == Sorted(SubSeq(list, 1, Len(list) - 1))
             x == list[Len(list)]
             n == Cardinality({i \in 1..Len(rest) : SortKeyLE(rest[i], x)})
         IN  SubSeq(rest, 1, n) \o <<x>> \o SubSeq(rest, n + 1, Len(rest))

VARIABLES
    q_is_ix,            \* truenas.is_ix_hardware
    q_encs,             \* the Enclosure objects of __get_enclosures(), in order
    q_nvme,             \* what enclosure.map_nvme returns
    q_labels,           \* truenas.enclosurelabel: encid -> label
    q_list,             \* the local enclosures
    q_seen,             \* the number of Enclosure objects the loop has taken
    q_mapped,           \* the list map_enclosures returned, None before
    q_returned,         \* what query returns, None before it has
    qpc                 \* "idle", "call" or "done"

qryVars == <<q_is_ix, q_encs, q_nvme, q_labels, q_list, q_seen, q_mapped, q_returned, qpc>>

QueryInputs == UNCHANGED <<q_is_ix, q_encs, q_nvme, q_labels>>
\* lines 74-76: not the hardware of the vendor
QueryNotIxHardware ==
    /\ qpc = "call"
    /\ ~q_is_ix
    /\ q_returned' = Some(<<>>)
    /\ qpc' = "done"
    /\ UNCHANGED <<q_list, q_seen, q_mapped>>
    /\ QueryInputs
\* lines 78-124: an enclosure with the name of the first expander
QueryInsertFirst ==
    /\ qpc = "call"
    /\ q_is_ix
    /\ q_seen < Len(q_encs)
    /\ Contains(q_encs[q_seen + 1].encname, Str.eDrawer4048S1)
    /\ q_list' = Collect(q_list, EnclosureDict(q_encs[q_seen + 1]))
    /\ q_seen' = q_seen + 1
    /\ UNCHANGED <<q_mapped, q_returned, qpc>>
    /\ QueryInputs
\* lines 78-126: any other enclosure
QueryAppend ==
    /\ qpc = "call"
    /\ q_is_ix
    /\ q_seen < Len(q_encs)
    /\ ~Contains(q_encs[q_seen + 1].encname, Str.eDrawer4048S1)
    /\ q_list' = Collect(q_list, EnclosureDict(q_encs[q_seen + 1]))
    /\ q_seen' = q_seen + 1
    /\ UNCHANGED <<q_mapped, q_returned, qpc>>
    /\ QueryInputs
\* lines 128-143, without filters and options: filter_list returns the list
QueryReturn ==
    /\ qpc = "call"
    /\ q_is_ix
    /\ q_seen = Len(q_encs)
    /\ \E mapped \in MapEnclosures(q_list \o q_nvme) :
        /\ q_mapped' = Some(mapped)
        /\ q_returned' = Some(Sorted(NumberAndLabel(mapped, q_labels)))
    /\ qpc' = "done"
    /\ UNCHANGED <<q_list, q_seen>>
    /\ QueryInputs

\* the largest number of Enclosure objects
MaxEncs == 3
\* an Enclosure object as its constructor leaves it
EnclosureObject(id, dev, first, product, elems) ==
    [encid |-> id, devname |-> dev, encname |-> first,
     model |-> _set_model(first, product, <<>>).model,
     controller |-> _set_model(first, product, <<>>).controller, elements |-> elems]
SampleElements ==
    <<ArrayDevSlot(1, IntValue(Bits(16777216)), <<>>, Inp.t_sda, None, None),
      ArrayDevSlot(2, IntValue(Bits(83886080)), <<>>, <<>>, None, None),
      ArrayDevSlot(3, IntValue(Bits(83886080)), <<>>, <<>>, None, None),
      Element("Cooling", Str.Cooling, 4, IntValue(Bits(16777216)), <<>>, <<>>, None, None)>>
\* a head unit, a shelf, the two drawers of an R50, and an enclosure that is no
\* controller and whose name holds the name of the first expander
SampleObject ==
    [M |-> EnclosureObject(<<"b", "1">>, Qry.bsg_Head, Qry.n_M, Inp.p_M40, SampleElements),
     Shelf |-> EnclosureObject(<<"a", "1">>, Qry.bsg_Shelf, Str.CELESTICR0904, Inp.p_M40,
                               <<ArrayDevSlot(1, IntValue(Bits(16777216)), <<>>, Inp.t_sdb,
                                              None, None)>>),
     Drawer1 |-> EnclosureObject(<<"c", "1">>, Qry.bsg_Drawer, Qry.n_Drawer1, Inp.p_R50, <<>>),
     Drawer2 |-> EnclosureObject(<<"a", "2">>, Qry.bsg_Mapped, Qry.n_Drawer2, Inp.p_R50, <<>>),
     Marked |-> EnclosureObject(<<"a", "0">>, Qry.bsg_Bare, Qry.n_Marked, Inp.p_M40, <<>>)]
SampleEnclosureObjects == {SampleObject[k] : k \in DOMAIN SampleObject}
SampleNvme ==
    {<<>>,
     <<[id |-> Str.r30_nvme_enclosure, bsg |-> <<>>, name |-> Qry.n_Nvme,
        model |-> Qry.m_R50, controller |-> TRUE, elements |-> <<>>]>>}
SampleLabels == {<<>>, (<<"a", "1">> :> <<"J", "B", "O", "D">>)}
InitQuery ==
    /\ q_is_ix \in BOOLEAN
    /\ q_encs \in DistinctSeqsUpTo(SampleEnclosureObjects, MaxEncs)
    /\ q_nvme \in SampleNvme
    /\ q_labels \in SampleLabels
    /\ q_list = <<>>
    /\ q_seen = 0
    /\ q_mapped = None
    /\ q_returned = None
    /\ qpc = "call"
IdleQuery ==
    /\ q_is_ix = FALSE
    /\ q_encs = <<>>
    /\ q_nvme = <<>>
    /\ q_labels = <<>>
    /\ q_list = <<>>
    /\ q_seen = 0
    /\ q_mapped = None
    /\ q_returned = None
    /\ qpc = "idle"

(***************************************************************************)
(* EnclosureService.sync_disk                                              *)
(***************************************************************************)
\* lines 163-179, _get_slot_for_disk: the enclosures whose first Array Device
\* Slot group holds an element of the device, and the first such element
SlotsOfDisk(enclosure, disk) ==
    LET IsArray(g) == g.name = Str.ArrayDeviceSlot
        groups == SelectSeq(enclosure.elements, IsArray)
        IsDisk(e) == e.Device = Some(disk)
    IN  IF groups = <<>> THEN <<>> ELSE SelectSeq(groups[1].elements, IsDisk)
\* lines 307-312: disk_enclosure, None when MatchNotFound is raised
DiskEnclosure(disk, enclosure_info) ==
    LET hits == {i \in 1..Len(enclosure_info) : SlotsOfDisk(enclosure_info[i], disk) # <<>>}
    IN  IF hits = {} THEN None
        ELSE Some([number |-> enclosure_info[Min(hits)].number,
                   slot |-> SlotsOfDisk(enclosure_info[Min(hits)], disk)[1].slot])

VARIABLES
    sd_disk,            \* the disk record of id_: [name, enclosure], None when there is none
    sd_info,            \* the argument enclosure_info, None when it is not given
    sd_query,           \* what enclosure.query returns now
    sd_retry,           \* the argument retry of the call that runs
    sd_recheck,         \* the call that runs is the delayed one
    sd_lookups,         \* the calls of _get_slot_for_disk
    sd_scheduled,       \* the coroutines handed to run_coroutine
    sd_updates,         \* the calls of disk.update: the enclosure written
    sd_result,          \* "pending", then "returned": what the first caller sees
    sd_background,      \* "none", "returned" or "raised": the end of the delayed call
    spc                 \* "idle", "call", "sleeping" or "done"

syncVars == <<sd_disk, sd_info, sd_query, sd_retry, sd_recheck, sd_lookups, sd_scheduled,
              sd_updates, sd_result, sd_background, spc>>

\* what enclosure.query returns: nothing, a head unit and a shelf, the shelf alone
SampleInfos ==
    {<<>>,
     Sorted(NumberAndLabel(<<EnclosureDict(SampleObject.Shelf), EnclosureDict(SampleObject.M)>>,
                           <<>>)),
     Sorted(NumberAndLabel(<<EnclosureDict(SampleObject.Shelf)>>, <<>>))}
SampleDisks ==
    {[name |-> n, enclosure |-> e] :
        n \in {Inp.t_sda, Inp.t_sdb, <<"s", "d", "c">>},
        e \in {None, Some([number |-> 0, slot |-> 1]), Some([number |-> 1, slot |-> 1])}}
InitSyncDisk ==
    /\ sd_disk \in {Some(d) : d \in SampleDisks}
    /\ sd_info \in {None} \cup {Some(i) : i \in SampleInfos}
    /\ sd_query \in SampleInfos
    /\ sd_retry \in BOOLEAN
    /\ sd_recheck = FALSE
    /\ sd_lookups = 0
    /\ sd_scheduled = 0
    /\ sd_updates = <<>>
    /\ sd_result = "pending"
    /\ sd_background = "none"
    /\ spc = "call"
IdleSyncDisk ==
    /\ sd_disk = None
    /\ sd_info = None
    /\ sd_query = <<>>
    /\ sd_retry = FALSE
    /\ sd_recheck = FALSE
    /\ sd_lookups = 0
    /\ sd_scheduled = 0
    /\ sd_updates = <<>>
    /\ sd_result = "pending"
    /\ sd_background = "none"
    /\ spc = "idle"

\* line 296: the enclosures the lookup searches
LookedUp == IF sd_info = None THEN sd_query ELSE sd_info[1]
\* the call that runs returns
SyncDiskEnds ==
    /\ spc' = "done"
    /\ sd_result' = "returned"
    /\ sd_background' = IF sd_recheck THEN "returned" ELSE sd_background
\* a mutant: disk.update whatever the stored value is
SyncDiskUpdateAlways ==
    /\ spc = "call"
    /\ sd_disk # None
    /\ ~(DiskEnclosure(sd_disk[1].name, LookedUp) = None /\ sd_retry)
    /\ sd_lookups' = sd_lookups + 1
    /\ sd_updates' = Append(sd_updates, DiskEnclosure(sd_disk[1].name, LookedUp))
    /\ sd_disk' = Some([name |-> sd_disk[1].name,
                        enclosure |-> DiskEnclosure(sd_disk[1].name, LookedUp)])
    /\ SyncDiskEnds
    /\ UNCHANGED <<sd_info, sd_query, sd_retry, sd_recheck, sd_scheduled>>
\* lines 289-315: the slot, or none without retry, differs from the stored one
SyncDiskUpdate ==
    /\ spc = "call"
    /\ sd_disk # None
    /\ ~(DiskEnclosure(sd_disk[1].name, LookedUp) = None /\ sd_retry)
    /\ DiskEnclosure(sd_disk[1].name, LookedUp) # sd_disk[1].enclosure
    /\ sd_lookups' = sd_lookups + 1
    /\ sd_updates' = Append(sd_updates, DiskEnclosure(sd_disk[1].name, LookedUp))
    /\ sd_disk' = Some([name |-> sd_disk[1].name,
                        enclosure |-> DiskEnclosure(sd_disk[1].name, LookedUp)])
    /\ SyncDiskEnds
    /\ UNCHANGED <<sd_info, sd_query, sd_retry, sd_recheck, sd_scheduled>>
\* lines 289-314: it is the stored one
SyncDiskUnchanged ==
    /\ spc = "call"
    /\ sd_disk # None
    /\ ~(DiskEnclosure(sd_disk[1].name, LookedUp) = None /\ sd_retry)
    /\ DiskEnclosure(sd_disk[1].name, LookedUp) = sd_disk[1].enclosure
    /\ sd_lookups' = sd_lookups + 1
    /\ SyncDiskEnds
    /\ UNCHANGED <<sd_disk, sd_info, sd_query, sd_retry, sd_recheck, sd_scheduled,
                   sd_updates>>
\* lines 295-305: no slot and retry: the delayed call is scheduled
SyncDiskSchedule ==
    /\ spc = "call"
    /\ sd_disk # None
    /\ DiskEnclosure(sd_disk[1].name, LookedUp) = None
    /\ sd_retry
    /\ sd_lookups' = sd_lookups + 1
    /\ sd_scheduled' = sd_scheduled + 1
    /\ sd_result' = "returned"
    /\ spc' = "sleeping"
    /\ UNCHANGED <<sd_disk, sd_info, sd_query, sd_retry, sd_recheck, sd_updates,
                   sd_background>>
\* a mutant: the delayed call retries as well
DelayedSyncDiskRetries ==
    /\ spc = "sleeping"
    /\ sd_disk # None
    /\ sd_lookups < 4
    /\ sd_query' \in SampleInfos
    /\ sd_retry' = TRUE
    /\ sd_recheck' = TRUE
    /\ spc' = "call"
    /\ UNCHANGED <<sd_disk, sd_info, sd_lookups, sd_scheduled, sd_updates, sd_result,
                   sd_background>>
\* lines 299-301: after the sleep, sync_disk(id_, enclosure_info) with retry left
\* at False; the enclosures may have changed since
DelayedSyncDisk ==
    /\ spc = "sleeping"
    /\ sd_disk # None
    /\ sd_query' \in SampleInfos
    /\ sd_retry' = FALSE
    /\ sd_recheck' = TRUE
    /\ spc' = "call"
    /\ UNCHANGED <<sd_disk, sd_info, sd_lookups, sd_scheduled, sd_updates, sd_result,
                   sd_background>>
\* lines 289-293 in the delayed call: the disk is gone and disk.query raises
DelayedSyncDiskRaises ==
    /\ spc = "sleeping"
    /\ sd_disk' = None
    /\ sd_retry' = FALSE
    /\ sd_recheck' = TRUE
    /\ sd_background' = "raised"
    /\ spc' = "done"
    /\ UNCHANGED <<sd_info, sd_query, sd_lookups, sd_scheduled, sd_updates, sd_result>>

(***************************************************************************)
(* Enclosures.__init__, EnclosureService._get_slot and                     *)
(* EnclosureService._get_ses_slot, one call of one of them.                *)
(***************************************************************************)
\* a mutant: no name is blacklisted
EnclosuresNoBlacklist(stat, product) ==
    IF ~(StartsWith(product, Str.TRUENAS_) \/ StartsWith(product, Str.FREENAS_)) THEN <<>>
    ELSE [i \in 1..Len(stat) |->
            EnclosureObject(stat[i].encid, stat[i].devname, stat[i].name, product,
                            stat[i].elements)]
\* lines 326-347: the enclosures of a platform, each built and then kept unless its
\* name holds a blacklisted text
Enclosures(stat, product) ==
    IF ~(StartsWith(product, Str.TRUENAS_) \/ StartsWith(product, Str.FREENAS_)) THEN <<>>
    ELSE LET blacklist ==
                 (IF StartsWith(product, Str.TRUENAS_H) THEN {} ELSE {Str.VirtualSES})
                 \cup (IF ~Contains(product, Str.MINI_) /\ product \notin R20_VARIANT
                       THEN {Str.AHCISGPIO} ELSE {})
             built == [i \in 1..Len(stat) |->
                          EnclosureObject(stat[i].encid, stat[i].devname, stat[i].name,
                                          product, stat[i].elements)]
             Kept(enclosure) == \A s \in blacklist : ~Contains(enclosure.encname, s)
         IN  SelectSeq(built, Kept)

\* MatchNotFound, and a returned value
MatchNotFound == [exc |-> "MatchNotFound", value |-> <<>>]
Found(v) == [exc |-> "", value |-> <<v>>]
\* the lambdas of lines 179 and 209: by the device, or by the slot number
SlotFilter(f, element) ==
    IF f.by = "Device" THEN element.Device = Some(f.dev) ELSE element.slot = f.n
\* the matching elements of the first Array Device Slot group of an enclosure
SlotsMatching(slot_filter, enclosure) ==
    LET IsArray(g) == g.name = Str.ArrayDeviceSlot
        groups == SelectSeq(enclosure.elements, IsArray)
        Matches(e) == SlotFilter(slot_filter, e)
    IN  IF groups = <<>> THEN <<>> ELSE SelectSeq(groups[1].elements, Matches)
\* a mutant: the last enclosure with a match is the one returned
_get_slot_last(slot_filter, enclosure_info) ==
    LET hits == {i \in 1..Len(enclosure_info) :
                    SlotsMatching(slot_filter, enclosure_info[i]) # <<>>}
    IN  IF hits = {} THEN MatchNotFound
        ELSE Found([enclosure |-> enclosure_info[Max(hits)],
                    slot |-> SlotsMatching(slot_filter, enclosure_info[Max(hits)])[1]])
\* lines 163-176, with the enclosure_info given
_get_slot(slot_filter, enclosure_info) ==
    LET hits == {i \in 1..Len(enclosure_info) :
                    SlotsMatching(slot_filter, enclosure_info[i]) # <<>>}
    IN  IF hits = {} THEN MatchNotFound
        ELSE Found([enclosure |-> enclosure_info[Min(hits)],
                    slot |-> SlotsMatching(slot_filter, enclosure_info[Min(hits)])[1]])

\* lines 371-374 and 668-671: the first enclosure of an encid, the first element of
\* a slot, or None
get_by_encid(ses_enclosures, id) ==
    LET HasId(e) == e.encid = id
    IN  IF SelectSeq(ses_enclosures, HasId) = <<>> THEN None
        ELSE Some(SelectSeq(ses_enclosures, HasId)[1])
get_by_slot(ses_enclosure, n) ==
    LET HasSlot(e) == e.slot = n
    IN  IF SelectSeq(ses_enclosure.elements, HasSlot) = <<>> THEN None
        ELSE Some(SelectSeq(ses_enclosure.elements, HasSlot)[1])
\* lines 181-196; element.original is None when the key is missing
_get_ses_slot(enclosure, element, ses_enclosures) ==
    LET ses_id == IF element.original # None THEN element.original[1].enclosure_id
                  ELSE enclosure.id
        n == IF element.original # None THEN element.original[1].slot ELSE element.slot
        ses_enclosure == get_by_encid(ses_enclosures, ses_id)
    IN  IF ses_enclosure = None THEN MatchNotFound
        ELSE IF get_by_slot(ses_enclosure[1], n) = None THEN MatchNotFound
        ELSE Found(get_by_slot(ses_enclosure[1], n)[1])

VARIABLES
    lk_fn,              \* "Enclosures", "_get_slot" or "_get_ses_slot": what is called
    lk_product,         \* system-product-name
    lk_stat,            \* enclosure.get_ses_enclosures, decoded: encid, devname, name, elements
    lk_info,            \* the enclosure_info of _get_slot
    lk_filter,          \* the slot_filter of _get_slot
    lk_args,            \* the enclosure and the element of _get_ses_slot
    lk_ret,             \* what the call returns or raises, None before
    lpc                 \* "idle", "call" or "done"

lkVars == <<lk_fn, lk_product, lk_stat, lk_info, lk_filter, lk_args, lk_ret, lpc>>

LookupInputs == UNCHANGED <<lk_fn, lk_product, lk_stat, lk_info, lk_filter, lk_args>>
\* lines 317-321: __get_enclosures()
CallEnclosures ==
    /\ lpc = "call"
    /\ lk_fn = "Enclosures"
    /\ lk_ret' = Some(Enclosures(lk_stat, lk_product))
    /\ lpc' = "done"
    /\ LookupInputs
Call_get_slot ==
    /\ lpc = "call"
    /\ lk_fn = "_get_slot"
    /\ lk_ret' = Some(_get_slot(lk_filter, lk_info))
    /\ lpc' = "done"
    /\ LookupInputs
Call_get_ses_slot ==
    /\ lpc = "call"
    /\ lk_fn = "_get_ses_slot"
    /\ lk_ret' = Some(_get_ses_slot(lk_args.enclosure, lk_args.element,
                                    Enclosures(lk_stat, lk_product)))
    /\ lpc' = "done"
    /\ LookupInputs

\* what get_ses_enclosures reports: a head unit, a shelf, the virtual SES enclosure
\* of an H series and the AHCI enclosure of a Mini
SampleStat ==
    {[encid |-> <<"b", "1">>, devname |-> Qry.bsg_Head, name |-> Qry.n_M,
      elements |-> SampleElements],
     [encid |-> <<"a", "1">>, devname |-> Qry.bsg_Shelf, name |-> Str.CELESTICR0904,
      elements |-> <<ArrayDevSlot(1, IntValue(Bits(16777216)), <<>>, Inp.t_sdb, None, None),
                     Element("Cooling", Str.Cooling, 2, IntValue(Bits(16777216)), <<>>, <<>>,
                             None, None)>>],
     [encid |-> <<"c", "1">>, devname |-> Qry.bsg_Drawer, name |-> Str.BROADCOMVirtualSES03,
      elements |-> <<>>],
     [encid |-> <<"d", "1">>, devname |-> Qry.bsg_Bare, name |-> Str.AHCISGPIO,
      elements |-> <<>>]}
LookupProducts ==
    {Inp.p_M40, Inp.p_H10, Str.TRUENAS_R20, Str.TRUENASMINI \o <<"-", "X">>,
     <<"L", "i", "n", "u", "x">>}
\* collections: those of sync_disk, one of three enclosures, and one whose first
\* enclosure has no Array Device Slot group
LookupInfos ==
    SampleInfos
    \cup {Sorted(NumberAndLabel(<<EnclosureDict(SampleObject.Shelf),
                                  EnclosureDict(SampleObject.Drawer1),
                                  EnclosureDict(SampleObject.M)>>, <<>>)),
          Sorted(NumberAndLabel(<<EnclosureDict(SampleObject.Shelf),
                                  EnclosureDict(SampleObject.Marked)>>, <<>>))}
LookupFilters ==
    {[by |-> "Device", dev |-> d, n |-> 0] :
        d \in {Inp.t_sda, Inp.t_sdb, <<>>, <<"s", "d", "c">>}}
    \cup {[by |-> "slot", dev |-> <<>>, n |-> n] : n \in {1, 2, 5}}
LookupArgs ==
    {[enclosure |-> [id |-> id], element |-> [slot |-> n, original |-> o]] :
        id \in {<<"b", "1">>, <<"a", "1">>, <<"e", "1">>}, n \in {1, 2, 4},
        o \in {None, Some([enclosure_id |-> <<"a", "1">>, slot |-> 2])}}
InitLookup ==
    /\ lk_fn \in {"Enclosures", "_get_slot", "_get_ses_slot"}
    /\ IF lk_fn = "_get_slot"
       THEN /\ lk_product = <<>>
            /\ lk_stat = <<>>
            /\ lk_info \in LookupInfos
            /\ lk_filter \in LookupFilters
       ELSE /\ lk_product \in LookupProducts
            /\ lk_stat \in DistinctSeqsUpTo(SampleStat, MaxEncs)
            /\ lk_info = <<>>
            /\ lk_filter = [by |-> "slot", dev |-> <<>>, n |-> 0]
    /\ IF lk_fn = "_get_ses_slot" THEN lk_args \in LookupArgs
       ELSE lk_args = [enclosure |-> [id |-> <<>>],
                       element |-> [slot |-> 0, original |-> None]]
    /\ lk_ret = None
    /\ lpc = "call"
IdleLookup ==
    /\ lk_fn = ""
    /\ lk_product = <<>>
    /\ lk_stat = <<>>
    /\ lk_info = <<>>
    /\ lk_filter = [by |-> "slot", dev |-> <<>>, n |-> 0]
    /\ lk_args = [enclosure |-> [id |-> <<>>], element |-> [slot |-> 0, original |-> None]]
    /\ lk_ret = None
    /\ lpc = "idle"

(***************************************************************************)
(* EnclosureService.do_update on the table truenas_enclosurelabel, and the *)
(* labels query shows.                                                     *)
(***************************************************************************)
\* the largest number of do_update calls
MaxCalls == 2
\* a mutant: datastore.delete removes nothing
DeletedNone(rows, id) == rows
\* line 155, datastore.delete with the filter encid = id
Deleted(rows, id) ==
    LET Other(r) == r.encid # id
    IN  SelectSeq(rows, Other)
\* line 62: encid is unique, an insert of a second row of an encid is refused
InsertRefused(rows, id) == \E i \in 1..Len(rows) : rows[i].encid = id
\* lines 156-159, datastore.insert
Inserted(rows, id, text) == Append(rows, [encid |-> id, label |-> text])
\* lines 134-137: the dict of the rows, a later row replacing an earlier one
LabelsOf(rows) ==
    [id \in {rows[i].encid : i \in 1..Len(rows)} |->
        rows[Max({i \in 1..Len(rows) : rows[i].encid = id})].label]
\* the enclosures query labels: a shelf and a head unit
LabelEnclosures == <<EnclosureDict(SampleObject.Shelf), EnclosureDict(SampleObject.M)>>

VARIABLES
    lb_rows,            \* the rows of truenas_enclosurelabel: encid, label
    lb_rows0,           \* the rows before the first call
    lb_calls,           \* the do_update calls: id, the label of data or None, and pc:
                        \* "call", "insert", "done" or "failed"
    lb_serial,          \* every call ends before the next one starts
    lb_shown            \* the id and the label of every enclosure of a query, None before

lbVars == <<lb_rows, lb_rows0, lb_calls, lb_serial, lb_shown>>

Finished(c) == c.pc \in {"done", "failed"}
\* the event loop runs call i: it has not ended and, when the calls are sequential,
\* the calls before it have
Runs(i) ==
    /\ i \in 1..Len(lb_calls)
    /\ ~Finished(lb_calls[i])
    /\ lb_serial => \A j \in 1..(i - 1) : Finished(lb_calls[j])
\* line 154: no "label" in data
DoUpdateNoLabel ==
    \E i \in 1..MaxCalls :
        /\ Runs(i)
        /\ lb_calls[i].pc = "call"
        /\ lb_calls[i].label = None
        /\ lb_calls' = [lb_calls EXCEPT ![i].pc = "done"]
        /\ UNCHANGED <<lb_rows, lb_rows0, lb_serial, lb_shown>>
\* line 155: await datastore.delete
DoUpdateDelete ==
    \E i \in 1..MaxCalls :
        /\ Runs(i)
        /\ lb_calls[i].pc = "call"
        /\ lb_calls[i].label # None
        /\ lb_rows' = Deleted(lb_rows, lb_calls[i].id)
        /\ lb_calls' = [lb_calls EXCEPT ![i].pc = "insert"]
        /\ UNCHANGED <<lb_rows0, lb_serial, lb_shown>>
\* lines 156-159: await datastore.insert
DoUpdateInsert ==
    \E i \in 1..MaxCalls :
        /\ Runs(i)
        /\ lb_calls[i].pc = "insert"
        /\ ~InsertRefused(lb_rows, lb_calls[i].id)
        /\ lb_rows' = Inserted(lb_rows, lb_calls[i].id, lb_calls[i].label[1])
        /\ lb_calls' = [lb_calls EXCEPT ![i].pc = "done"]
        /\ UNCHANGED <<lb_rows0, lb_serial, lb_shown>>
\* lines 156-159: the insert violates the unique constraint and the call raises
DoUpdateInsertRaises ==
    \E i \in 1..MaxCalls :
        /\ Runs(i)
        /\ lb_calls[i].pc = "insert"
        /\ InsertRefused(lb_rows, lb_calls[i].id)
        /\ lb_calls' = [lb_calls EXCEPT ![i].pc = "failed"]
        /\ UNCHANGED <<lb_rows, lb_rows0, lb_serial, lb_shown>>
\* lines 134-139: a query after the calls
QueryLabels ==
    /\ lb_calls # <<>>
    /\ \A i \in 1..Len(lb_calls) : Finished(lb_calls[i])
    /\ lb_shown = None
    /\ lb_shown' = Some([i \in 1..Len(LabelEnclosures) |->
                            [id |-> LabelEnclosures[i].id,
                             label |-> NumberAndLabel(LabelEnclosures,
                                                      LabelsOf(lb_rows))[i].label]])
    /\ UNCHANGED <<lb_rows, lb_rows0, lb_calls, lb_serial>>

SampleLabelTexts == {<<>>, <<"J", "B", "O", "D">>, <<"R", "A", "C", "K">>}
SampleRows ==
    {<<>>,
     <<[encid |-> <<"a", "1">>, label |-> <<"O", "L", "D">>]>>,
     <<[encid |-> <<"a", "2">>, label |-> <<"K", "E", "E", "P">>],
       [encid |-> <<"a", "1">>, label |-> <<"O", "L", "D">>]>>}
SampleCalls ==
    {[id |-> id, label |-> l, pc |-> "call"] :
        id \in {<<"a", "1">>, <<"b", "1">>},
        l \in {None} \cup {Some(t) : t \in SampleLabelTexts}}
InitLabels ==
    /\ lb_rows \in SampleRows
    /\ lb_rows0 = lb_rows
    /\ lb_calls \in SeqsUpTo(SampleCalls, MaxCalls)
    /\ lb_serial \in BOOLEAN
    /\ lb_shown = None
IdleLabels ==
    /\ lb_rows = <<>>
    /\ lb_rows0 = <<>>
    /\ lb_calls = <<>>
    /\ lb_serial = TRUE
    /\ lb_shown = None

(***************************************************************************)
(* Concurrent calls of set_slot_status on one slot of one enclosure: the   *)
(* loop of lines 273-276 of every caller, one control action at a time.    *)
(***************************************************************************)
\* the largest number of concurrent callers
MaxCallers == 3
\* a mutant: an action writes the whole control word of the slot
AppliedWholeSlot(hw, action) ==
    IF action = Str.clear_ident \/ action = Str.clear_fault
    THEN [ident |-> FALSE, fault |-> FALSE]
    ELSE IF action = Str.set_ \o <<"i", "d", "e", "n", "t">>
    THEN [ident |-> TRUE, fault |-> FALSE]
    ELSE [ident |-> FALSE, fault |-> TRUE]
\* line 276, EnclosureDevice.set_control: the indicators of the slot after an action
Applied(hw, action) ==
    IF action = Str.clear_ident THEN [hw EXCEPT !.ident = FALSE]
    ELSE IF action = Str.clear_fault THEN [hw EXCEPT !.fault = FALSE]
    ELSE IF action = Str.set_ \o <<"i", "d", "e", "n", "t">> THEN [hw EXCEPT !.ident = TRUE]
    ELSE IF action = Str.set_ \o <<"f", "a", "u", "l", "t">> THEN [hw EXCEPT !.fault = TRUE]
    ELSE hw

VARIABLES
    cc_hw,              \* the identify and the fault indicator of the slot
    cc_hw0,             \* the indicators before the calls
    cc_callers,         \* per caller: its status and the number of actions it has issued
    cc_log              \* the callers in the order their actions reached the hardware

ccVars == <<cc_hw, cc_hw0, cc_callers, cc_log>>

\* lines 273-276: the next action of one caller reaches the hardware
IssueControl ==
    \E k \in 1..MaxCallers :
        /\ k \in 1..Len(cc_callers)
        /\ cc_callers[k].issued < Len(ControlActions(cc_callers[k].status))
        /\ cc_hw' = Applied(cc_hw, ControlActions(cc_callers[k].status)[cc_callers[k].issued + 1])
        /\ cc_callers' = [cc_callers EXCEPT ![k].issued = @ + 1]
        /\ cc_log' = Append(cc_log, k)
        /\ UNCHANGED cc_hw0

Indicators == [ident : BOOLEAN, fault : BOOLEAN]
InitCallers ==
    /\ cc_hw \in Indicators
    /\ cc_hw0 = cc_hw
    /\ cc_callers \in {[k \in 1..Len(s) |-> [status |-> s[k], issued |-> 0]] :
                          s \in SeqsUpTo(Statuses, MaxCallers) \ {<<>>}}
    /\ cc_log = <<>>
IdleCallers ==
    /\ cc_hw = [ident |-> FALSE, fault |-> FALSE]
    /\ cc_hw0 = [ident |-> FALSE, fault |-> FALSE]
    /\ cc_callers = <<>>
    /\ cc_log = <<>>

\* the lookups, the label store and the concurrent callers, no call of them, and
\* the variables of the other calls
restVars == <<lkVars, lbVars, ccVars>>
oldVars == <<encVars, rawVars, ctlVars, qryVars, syncVars>>
IdleRest == IdleLookup /\ IdleLabels /\ IdleCallers
vars == <<encVars, rawVars, ctlVars, qryVars, syncVars, lkVars, lbVars, ccVars>>

(***************************************************************************)
(* Specifications.                                                         *)
(***************************************************************************)
\* the decoder on every status block of at most MaxLines lines
InitParse ==
    /\ InitEnclosure({ConfigBlock(Inp.cf_Vendor)}, {Inp.p_M40}, SeqsUpTo(SampleLines, MaxLines),
                     {<<>>}, {<<>>})
    /\ IdleRaw
    /\ IdleSlotStatus
    /\ IdleQuery
    /\ IdleSyncDisk /\ IdleRest
NextParse ==
    \/ ParseConfig /\ UNCHANGED <<rawVars, ctlVars, qryVars, syncVars, restVars>>
    \/ map_disks_to_enclosure_slots /\ UNCHANGED <<rawVars, ctlVars, qryVars, syncVars, restVars>>
    \/ ParseTypeLine /\ UNCHANGED <<rawVars, ctlVars, qryVars, syncVars, restVars>>
    \/ ParseDescLine /\ UNCHANGED <<rawVars, ctlVars, qryVars, syncVars, restVars>>
    \/ ParseHexLine /\ UNCHANGED <<rawVars, ctlVars, qryVars, syncVars, restVars>>
    \/ ParseOtherLine /\ UNCHANGED <<rawVars, ctlVars, qryVars, syncVars, restVars>>
    \/ ParseReturn /\ UNCHANGED <<rawVars, ctlVars, qryVars, syncVars, restVars>>
SpecParse == InitParse /\ [][NextParse]_vars
\* the slot mapping on every listing of at most MaxDirs entries
InitSlots ==
    /\ InitEnclosure(SampleConfigs, SampleProducts, {SampleBlock},
                     DistinctSeqsUpTo(SampleDirs, MaxDirs), SampleSesStatus)
    /\ IdleRaw
    /\ IdleSlotStatus
    /\ IdleQuery
    /\ IdleSyncDisk /\ IdleRest
SpecSlots == InitSlots /\ [][NextParse]_vars
\* Enclosure._parse on the status blocks of at most MaxRepeat lines that a header,
\* a descriptor of index 1, a line of bytes and an overall descriptor make up
MaxRepeat == 5
InitRepeat ==
    /\ InitEnclosure({ConfigBlock(Inp.cf_Vendor)}, {Inp.p_M40},
                     SeqsUpTo({Inp.l_TypeCooling, Inp.l_Desc1, Inp.l_Hex, Inp.l_Overall},
                              MaxRepeat),
                     {<<>>}, {<<>>})
    /\ IdleRaw
    /\ IdleSlotStatus
    /\ IdleQuery
    /\ IdleSyncDisk /\ IdleRest
SpecRepeat == InitRepeat /\ [][NextParse]_vars
\* Enclosure._parse with slot directories, on the status blocks of at most MaxLines
\* lines that an Array Device Slot header, a descriptor of index 1, a line of bytes
\* and an overall descriptor make up
SampleSlotDirs ==
    {<<>>,
     <<SlotDir(<<"1">>, <<"1">>, <<"1">>, <<"0">>, None)>>,
     <<SlotDir(<<"1">>, <<"1">>, <<"1">>, <<"0">>, None),
       SlotDir(<<"0">>, <<"0">>, <<"0">>, <<"0">>, Some(<<Inp.t_sda>>))>>}
InitArray ==
    /\ InitEnclosure({ConfigBlock(Inp.cf_Vendor)}, {Inp.p_M40, Inp.p_H10},
                     SeqsUpTo({Inp.l_TypeArray, Inp.l_Desc1, Inp.l_Hex, Inp.l_Overall},
                              MaxLines),
                     SampleSlotDirs, SampleSesStatus)
    /\ IdleRaw
    /\ IdleSlotStatus
    /\ IdleQuery
    /\ IdleSyncDisk /\ IdleRest
SpecArray == InitArray /\ [][NextParse]_vars
\* Enclosure._parse on one configuration per name the classifier knows, on the
\* platforms it tells apart
ClassifyNames ==
    M_SERIES_REGEX \cup R_SERIES_REGEX \cup R20_REGEX \cup R50_REGEX \cup X_SERIES_REGEX
    \cup ES24_REGEX \cup ES24F_REGEX
    \cup {Str.AHCISGPIO, Str.AHCISGPIO \o <<" ", "x">>, Str.BROADCOMVirtualSES03,
          Str.QUANTAJB9SIM, Str.Storage1729, Str.ECStream3U16_4R, Str.ECStream3U16RJ,
          Str.HGSTH4102J, Str.VikingESNDS, Str.VikingESVDS, Str.CELESTICR0904,
          Str.HGSTH4060J, Str.CELESTICX2012, Inp.cf_Vendor}
ClassifyConfigs ==
    {ConfigBlock(n) : n \in ClassifyNames}
    \cup {Str.ECStream3U16_4R \o <<"\n">> \o Str.SD_9GV12P1J \o <<"\n">>}
ClassifyProducts ==
    {Inp.p_R50, Inp.p_H10, Inp.p_M40, Str.TRUENAS_R20, Str.TRUENASMINI \o <<"-", "X">>,
     Str.FREENASMINI}
InitClassify ==
    /\ InitEnclosure(ClassifyConfigs, ClassifyProducts, {SampleBlock}, {<<>>}, {<<>>})
    /\ IdleRaw
    /\ IdleSlotStatus
    /\ IdleQuery
    /\ IdleSyncDisk /\ IdleRest
SpecClassify == InitClassify /\ [][NextParse]_vars
\* _parse_raw_value on four bytes
InitRawValue == IdleEnclosure /\ InitRaw /\ IdleSlotStatus /\ IdleQuery /\ IdleSyncDisk /\ IdleRest
NextRawValue == ParseRawValue /\ UNCHANGED <<encVars, ctlVars, qryVars, syncVars, restVars>>
SpecRawValue == InitRawValue /\ [][NextRawValue]_vars
\* one call of set_slot_status
InitControl == IdleEnclosure /\ IdleRaw /\ InitSlotStatus /\ IdleQuery /\ IdleSyncDisk /\ IdleRest
NextControl ==
    \/ CallR30 /\ UNCHANGED <<encVars, rawVars, qryVars, syncVars, restVars>>
    \/ CallFSeries /\ UNCHANGED <<encVars, rawVars, qryVars, syncVars, restVars>>
    \/ EnclosureNotFound /\ UNCHANGED <<encVars, rawVars, qryVars, syncVars, restVars>>
    \/ HSeriesSlotNotFound /\ UNCHANGED <<encVars, rawVars, qryVars, syncVars, restVars>>
    \/ HSeriesToggle /\ UNCHANGED <<encVars, rawVars, qryVars, syncVars, restVars>>
    \/ HSeriesToggleFileNotFound /\ UNCHANGED <<encVars, rawVars, qryVars, syncVars, restVars>>
    \/ OriginalNotFound /\ UNCHANGED <<encVars, rawVars, qryVars, syncVars, restVars>>
    \/ OpenDevice /\ UNCHANGED <<encVars, rawVars, qryVars, syncVars, restVars>>
    \/ SetControl /\ UNCHANGED <<encVars, rawVars, qryVars, syncVars, restVars>>
    \/ SetControlOSError /\ UNCHANGED <<encVars, rawVars, qryVars, syncVars, restVars>>
    \/ SetSlotStatusReturn /\ UNCHANGED <<encVars, rawVars, qryVars, syncVars, restVars>>
SpecControl == InitControl /\ [][NextControl]_vars
\* one call of query, without filters and options
InitQueryCall == IdleEnclosure /\ IdleRaw /\ IdleSlotStatus /\ InitQuery /\ IdleSyncDisk /\ IdleRest
NextQuery ==
    \/ QueryNotIxHardware /\ UNCHANGED <<encVars, rawVars, ctlVars, syncVars, restVars>>
    \/ QueryInsertFirst /\ UNCHANGED <<encVars, rawVars, ctlVars, syncVars, restVars>>
    \/ QueryAppend /\ UNCHANGED <<encVars, rawVars, ctlVars, syncVars, restVars>>
    \/ QueryReturn /\ UNCHANGED <<encVars, rawVars, ctlVars, syncVars, restVars>>
SpecQuery == InitQueryCall /\ [][NextQuery]_vars
\* one call of sync_disk, and the call it schedules
InitSync == IdleEnclosure /\ IdleRaw /\ IdleSlotStatus /\ IdleQuery /\ InitSyncDisk /\ IdleRest
NextSync ==
    \/ SyncDiskUpdate /\ UNCHANGED <<encVars, rawVars, ctlVars, qryVars, restVars>>
    \/ SyncDiskUnchanged /\ UNCHANGED <<encVars, rawVars, ctlVars, qryVars, restVars>>
    \/ SyncDiskSchedule /\ UNCHANGED <<encVars, rawVars, ctlVars, qryVars, restVars>>
    \/ DelayedSyncDisk /\ UNCHANGED <<encVars, rawVars, ctlVars, qryVars, restVars>>
    \/ DelayedSyncDiskRaises /\ UNCHANGED <<encVars, rawVars, ctlVars, qryVars, restVars>>
SpecSync == InitSync /\ [][NextSync]_vars
\* one call of Enclosures, _get_slot or _get_ses_slot
InitLookupCall ==
    /\ IdleEnclosure /\ IdleRaw /\ IdleSlotStatus /\ IdleQuery /\ IdleSyncDisk
    /\ InitLookup /\ IdleLabels /\ IdleCallers
NextLookup ==
    \/ CallEnclosures /\ UNCHANGED <<oldVars, lbVars, ccVars>>
    \/ Call_get_slot /\ UNCHANGED <<oldVars, lbVars, ccVars>>
    \/ Call_get_ses_slot /\ UNCHANGED <<oldVars, lbVars, ccVars>>
SpecLookup == InitLookupCall /\ [][NextLookup]_vars
\* sequential or concurrent calls of do_update, and a query after them
InitLabelCalls ==
    /\ IdleEnclosure /\ IdleRaw /\ IdleSlotStatus /\ IdleQuery /\ IdleSyncDisk
    /\ IdleLookup /\ InitLabels /\ IdleCallers
NextLabel ==
    \/ DoUpdateNoLabel /\ UNCHANGED <<oldVars, lkVars, ccVars>>
    \/ DoUpdateDelete /\ UNCHANGED <<oldVars, lkVars, ccVars>>
    \/ DoUpdateInsert /\ UNCHANGED <<oldVars, lkVars, ccVars>>
    \/ DoUpdateInsertRaises /\ UNCHANGED <<oldVars, lkVars, ccVars>>
    \/ QueryLabels /\ UNCHANGED <<oldVars, lkVars, ccVars>>
SpecLabel == InitLabelCalls /\ [][NextLabel]_vars
\* concurrent calls of set_slot_status on one slot
InitConcurrent ==
    /\ IdleEnclosure /\ IdleRaw /\ IdleSlotStatus /\ IdleQuery /\ IdleSyncDisk
    /\ IdleLookup /\ IdleLabels /\ InitCallers
NextConcurrent ==
    IssueControl /\ UNCHANGED <<oldVars, lkVars, lbVars>>
SpecConcurrent == InitConcurrent /\ [][NextConcurrent]_vars

(***************************************************************************)
(* The decoder's carried state (C1, C2, C3), under SpecParse.              *)
(***************************************************************************)
\* the line matches none of the three shapes
NoShape(line) ==
    MatchTypeLine(line) = None /\ MatchDescLine(line) = None /\ MatchHexLine(line) = None
\* the last line the loop has consumed matches none of the three shapes
LastLineOther == pc \in {"lines", "done"} /\ ln >= 1 /\ NoShape(es[ln])
\* the type named by the last header among the first k lines, None when there is none
LastHeaderType(k) ==
    LET headers == {i \in 1..k : MatchTypeLine(es[i]) # None}
    IN  IF headers = {} THEN None
        ELSE Some(ElementTypeName(MatchTypeLine(es[Max(headers)])[1]))

OtherDescBytes ==
    /\ pc \in {"lines", "done"}
    /\ ln >= 3
    /\ NoShape(es[ln - 2])
    /\ MatchTypeLine(es[ln - 1]) = None
    /\ MatchDescLine(es[ln - 1]) # None
    /\ DecValue(MatchDescLine(es[ln - 1])[1]) >= 1
    /\ MatchTypeLine(es[ln]) = None /\ MatchDescLine(es[ln]) = None
    /\ MatchHexLine(es[ln]) # None
    /\ Len(SplitOn(MatchHexLine(es[ln])[1], " ")) = 4
    /\ \A i \in 1..4 : Len(SplitOn(MatchHexLine(es[ln])[1], " ")[i]) = 2
    /\ LastHeaderType(ln) \notin {None, Some(Str.ArrayDeviceSlot)}

HeaderDescBytes ==
    /\ pc \in {"lines", "done"}
    /\ ln >= 3
    /\ MatchTypeLine(es[ln - 2]) # None
    /\ ElementTypeName(MatchTypeLine(es[ln - 2])[1]) # Str.ArrayDeviceSlot
    /\ MatchDescLine(es[ln - 1]) # None
    /\ MatchTypeLine(es[ln]) = None /\ MatchDescLine(es[ln]) = None
    /\ MatchHexLine(es[ln]) # None
    /\ Len(SplitOn(MatchHexLine(es[ln])[1], " ")) = 4
    /\ \A i \in 1..4 : Len(SplitOn(MatchHexLine(es[ln])[1], " ")[i]) = 2
\* the bits of the byte written as the two hexadecimal digits f, the lowest first
ByteBits(f) ==
    [i \in 1..8 |-> IF i <= 4 THEN (HexVal(f[2]) \div 2 ^ (i - 1)) % 2
                    ELSE (HexVal(f[1]) \div 2 ^ (i - 5)) % 2]
\* the bytes b0 b1 b2 b3 of such a line as one number, b0 the most significant
BytesOf(line) ==
    LET f == SplitOn(MatchHexLine(line)[1], " ")
    IN  Normalize(ByteBits(f[4]) \o ByteBits(f[3]) \o ByteBits(f[2]) \o ByteBits(f[1]))

\* C2: header of type T, "Element N descriptor:" (N >= 0), byte line appends
\* exactly one element of kind T with slot N + 1 and the packed bytes as raw_value.
C2_HeaderDescBytesAppends ==
    HeaderDescBytes =>
        /\ elements # <<>>
        /\ ln = 3 => Len(elements) = 1
        /\ elements[Len(elements)].name = ElementTypeName(MatchTypeLine(es[ln - 2])[1])
        /\ elements[Len(elements)].slot = DecValue(MatchDescLine(es[ln - 1])[1]) + 1
        /\ elements[Len(elements)].value_raw = IntValue(BytesOf(es[ln]))

\* C3: decoding a status block never aborts, whatever its lines are.
C3_DecoderNeverAborts == pc # "raised"

(***************************************************************************)
(* The slot numbering (C5), under SpecSlots.                               *)
(***************************************************************************)
\* the entries that qualify as slot directories, and their raw slot indexes
QualifyingDirs ==
    {i \in 1..Len(sysfs) :
        /\ sysfs[i].is_dir
        /\ ~(StartsWith(product_name, Str.TRUENAS_H) /\ sysfs[i].name \in HSeriesIgnore)
        /\ sysfs[i].slot # None /\ sysfs[i].status # None
        /\ sysfs[i].locate # None /\ sysfs[i].fault # None}
RawIndex(i) == DecValue(Strip(sysfs[i].slot[1]))
RawIndexes == {RawIndex(i) : i \in QualifyingDirs}
\* the ArrayDeviceSlot elements of the enclosure
ArraySlots == {i \in 1..Len(elements) : elements[i].cls = "ArrayDevSlot"}
\* the device of the slot directory with raw index k
DeviceAt(k) ==
    LET i == Max({j \in QualifyingDirs : RawIndex(j) = k})
    IN  IF sysfs[i].block = None \/ sysfs[i].block[1] = <<>> THEN <<>> ELSE sysfs[i].block[1][1]
\* no exclusion rule of _enclosure_element applies to the enclosure
NoExclusion == ~StartsWith(encname, Str.ECStream3U16_4R) /\ ~StartsWith(model, Str.R50comma)

\* C5: with slot directories whose minimum raw index is 0 every exposed
\* ArrayDeviceSlot number is its raw index + 1, otherwise it is the raw index; the
\* shift is applied once and to all the slots of the enclosure.
C5_SlotShift ==
    (pc \in {"lines", "done"} /\ RawIndexes # {}) =>
        LET shift == IF Min(RawIndexes) = 0 THEN 1 ELSE 0
        IN  /\ \A i \in ArraySlots :
                /\ elements[i].slot - shift \in RawIndexes
                /\ elements[i].devname = DeviceAt(elements[i].slot - shift)
            /\ \A i, j \in ArraySlots : i # j => elements[i].slot # elements[j].slot
            /\ NoExclusion =>
                 {elements[i].slot : i \in ArraySlots} = {k + shift : k \in RawIndexes}
\* raw indexes 0 and 4 are exposed as 1 and 5
C5_Witness ==
    /\ pc = "done"
    /\ RawIndexes = {0, 4}
    /\ {elements[i].slot : i \in ArraySlots} = {1, 5}

(***************************************************************************)
(* The raw value packing (C4), under SpecRawValue.                         *)
(***************************************************************************)
\* byte i (0 the first) of a raw value: bits 8 * (3 - i) to 8 * (3 - i) + 7
ByteOf(raw, i) ==
    LET Bit(k) == BitAt(raw, (2 * (3 - i)) * 4 + k + 1)
    IN  Bit(0) + 2 * Bit(1) + 4 * Bit(2) + 8 * Bit(3) + 16 * Bit(4) + 32 * Bit(5)
        + 64 * Bit(6) + 128 * Bit(7)

\* C4: the raw value of four bytes 0..255 is returned and not raised, fits in 32
\* bits, is the same for the same bytes, and byte i is read back from bits
\* (2*(3-i))*4 up.
C4_PackingRoundTrip ==
    newvalue # None =>
        /\ ~newvalue[1].raised
        /\ newvalue[1] = _parse_raw_value(value, FALSE)
        /\ Len(newvalue[1].value) <= 32
        /\ newvalue[1].value = Normalize(newvalue[1].value)
        /\ \A i \in 0..3 : ByteOf(newvalue[1].value, i) = value[i + 1]
\* a first byte above 127: the raw value has 32 bits
C4_Witness ==
    /\ newvalue # None
    /\ value = <<128, 0, 90, 255>>
    /\ Len(newvalue[1].value) = 32

(***************************************************************************)
(* set_slot_status (C6 to C10), under SpecControl.                         *)
(***************************************************************************)
c_set_ident == <<"s", "e", "t", "=", "i", "d", "e", "n", "t">>
c_set_fault == <<"s", "e", "t", "=", "f", "a", "u", "l", "t">>
c_clear_ident == <<"c", "l", "e", "a", "r", "=", "i", "d", "e", "n", "t">>
c_clear_fault == <<"c", "l", "e", "a", "r", "=", "f", "a", "u", "l", "t">>
\* the actions the three states stand for
ExpectedActions ==
    IF status = Str.CLEAR THEN <<c_clear_ident, c_clear_fault>>
    ELSE IF status = Str.IDENTIFY THEN <<c_set_ident>>
    ELSE <<c_set_fault>>
\* the call is on the SCSI generic route and has resolved its slot
GenericRoute == original # None

\* C6: on the generic route the calls of set_control are at every moment a
\* prefix of the actions of the state (CLEAR: clear identify, clear fault;
\* IDENTIFY: set identify; FAULT: set fault), each addressed to the resolved slot
\* - 1, and all of them when the call returns.
C6_GenericActions ==
    GenericRoute =>
        /\ Len(control_calls) <= Len(ExpectedActions)
        /\ \A i \in 1..Len(control_calls) :
            /\ control_calls[i].action = ExpectedActions[i]
            /\ DecValue(control_calls[i].slot) = original[1].slot - 1
            /\ control_calls[i].slot # <<>>
            /\ \A p \in 1..Len(control_calls[i].slot) : control_calls[i].slot[p] \in DigitSet
        /\ (cpc = "done" /\ result = NoError) =>
            /\ Len(control_calls) = Len(ExpectedActions)
            /\ nvme_calls = <<>> /\ sysfs_calls = <<>>
\* slot 5 and CLEAR on a shelf: two actions, to slot 4
C6_Witness ==
    /\ cpc = "done"
    /\ result = NoError
    /\ enclosure_id = Qry.id_Shelf
    /\ slot = 5
    /\ status = Str.CLEAR
    /\ Len(control_calls) = 2
    /\ control_calls[1].action = c_clear_ident /\ control_calls[1].slot = <<"4">>
    /\ control_calls[2].action = c_clear_fault /\ control_calls[2].slot = <<"4">>

c_NvmeSuffix == <<"_", "n", "v", "m", "e", "_", "e", "n", "c", "l", "o", "s", "u", "r", "e">>
\* the identifiers of the NVMe enclosures
NvmeIds ==
    {<<"r", "3", "0">> \o c_NvmeSuffix, <<"f", "6", "0">> \o c_NvmeSuffix,
     <<"f", "1", "0", "0">> \o c_NvmeSuffix, <<"f", "1", "3", "0">> \o c_NvmeSuffix}
\* the number of backends the call has invoked
BackendsInvoked ==
    (IF nvme_calls # <<>> THEN 1 ELSE 0) + (IF sysfs_calls # <<>> THEN 1 ELSE 0)
    + (IF control_calls # <<>> THEN 1 ELSE 0)

\* C7: for an NVMe enclosure identifier the call queries no enclosure, toggles no
\* sysfs attribute and issues no control action, and returns after one call of
\* the NVMe function with (slot, status); no call invokes two backends.
C7_NvmeRouteOnly ==
    /\ cpc # "idle" => BackendsInvoked <= 1
    /\ enclosure_id \in NvmeIds =>
        /\ queries = 0
        /\ sysfs_calls = <<>>
        /\ control_calls = <<>>
        /\ info = None
        /\ Len(nvme_calls) <= 1
        /\ cpc = "done" =>
            /\ result = NoError
            /\ Len(nvme_calls) = 1
            /\ nvme_calls[1].slot = slot
            /\ nvme_calls[1].status = status
            /\ nvme_calls[1].fn =
                 (IF enclosure_id[1] = "r" THEN "r30_set_slot_status"
                  ELSE "fseries_set_slot_status")
\* f130_nvme_enclosure, slot 3, IDENTIFY
C7_Witness ==
    /\ cpc = "done"
    /\ enclosure_id = <<"f", "1", "3", "0">> \o c_NvmeSuffix
    /\ slot = 3
    /\ status = Str.IDENTIFY
    /\ Len(nvme_calls) = 1
    /\ queries = 0

\* the call has taken the route of the H series
HSeriesRoute == info # None /\ info[1].model = <<"H", " ", "S", "e", "r", "i", "e", "s">>
\* the error of a slot or an enclosure that is not found
IsNotFound(r) == r.exc = "CallError" /\ r.errno = "ENOENT"
\* what the route does with a slot the table maps, and with one it does not
HSeriesOutcome ==
    HSeriesRoute =>
        /\ cpc = "done"
        /\ control_calls = <<>> /\ nvme_calls = <<>>
        /\ slot \notin DOMAIN sysfs_to_ui => IsNotFound(result) /\ sysfs_calls = <<>>
        /\ slot \in DOMAIN sysfs_to_ui =>
            /\ Len(sysfs_calls) = 1
            /\ sysfs_calls[1].status = status
            /\ sysfs_calls[1].raised => IsNotFound(result)
            /\ ~sysfs_calls[1].raised => result = NoError

\* C8 as stated: the table of the H series route has exactly fifteen entries; a
\* slot it does not map is NotFound and toggles nothing; a missing sysfs path is
\* NotFound.
C8_FifteenEntryTable ==
    HSeriesRoute => Cardinality(DOMAIN sysfs_to_ui) = 15 /\ HSeriesOutcome

\* C8 as amended: the table has exactly twelve entries, bays 1 to 8 on ordinals 8
\* to 15 and bays 9 to 12 on ordinals 0 to 3; any other slot is NotFound and
\* toggles nothing; a missing sysfs path is NotFound.
C8_TwelveEntryTable ==
    HSeriesRoute =>
        /\ HSeriesOutcome
        /\ slot \notin 1..12 => IsNotFound(result) /\ sysfs_calls = <<>>
        /\ slot \in 1..12 =>
            /\ Len(sysfs_calls) = 1
            /\ DecValue(sysfs_calls[1].mapped_slot) = (IF slot <= 8 THEN slot + 7 ELSE slot - 9)
\* slot 13 of the head unit: NotFound, nothing toggled
C8_Witness ==
    /\ HSeriesRoute
    /\ slot = 13
    /\ IsNotFound(result)
    /\ sysfs_calls = <<>>

\* C9: a call of set_control that raises is the last one, and the call ends with
\* a CallError whose message names the status, the slot and the enclosure id; no
\* action is issued twice.
C9_FailureSurfaces ==
    /\ \A i \in 1..Len(control_calls) :
        control_calls[i].raised =>
            /\ i = Len(control_calls)
            /\ cpc = "done"
            /\ result.exc = "CallError"
            /\ Contains(result.msg, <<" ">> \o status \o <<" ">>)
            /\ Contains(result.msg, <<" ">> \o IntToStr(slot) \o <<" ">>)
            /\ Contains(result.msg, <<"'">> \o enclosure_id \o <<"'">>)
    /\ \A i, j \in 1..Len(control_calls) :
        i # j => control_calls[i].action # control_calls[j].action
    /\ (cpc = "done" /\ GenericRoute /\ result = NoError) =>
        \A i \in 1..Len(control_calls) : ~control_calls[i].raised
\* CLEAR, and the first action fails: the second is never sent
C9_Witness ==
    /\ cpc = "done"
    /\ status = Str.CLEAR
    /\ Len(control_calls) = 1
    /\ control_calls[1].raised
    /\ control_calls[1].action = c_clear_ident
    /\ result.exc = "CallError"

\* the enclosures with the id of the call, and the first of them
Matching == {i \in 1..Len(enclosures) : enclosures[i].id = enclosure_id}
TheEnclosure == enclosures[Min(Matching)]
\* the elements of the Array Device Slot groups of an enclosure
ArrayElements(e) ==
    UNION {{e.elements[g].elements[k] : k \in 1..Len(e.elements[g].elements)} :
              g \in {h \in 1..Len(e.elements) :
                        e.elements[h].name = <<"A", "r", "r", "a", "y", " ", "D", "e", "v",
                                               "i", "c", "e", " ", "S", "l", "o", "t">>}}
c_mapped == <<"m", "a", "p", "p", "e", "d", "_", "e", "n", "c", "l", "o", "s", "u", "r", "e",
              "_", "0">>
c_dev == <<"/", "d", "e", "v", "/">>

\* C10: on the generic route an id that matches no enclosure, or a slot that is
\* not among the Array Device Slot elements, ends the call with NotFound and no
\* control action; on the mapped enclosure every control action goes to the
\* original handle and the original slot of the element.
C10_NotFoundAndOriginal ==
    /\ (enclosure_id \notin NvmeIds /\ Matching = {}) =>
        /\ control_calls = <<>>
        /\ cpc = "done" => IsNotFound(result)
    /\ (enclosure_id \notin NvmeIds /\ Matching # {} /\ ~HSeriesRoute /\ cpc # "call"
        /\ ~\E e \in ArrayElements(TheEnclosure) : e.slot = slot) =>
        /\ control_calls = <<>>
        /\ cpc = "done" /\ IsNotFound(result)
    /\ (enclosure_id = c_mapped /\ Matching # {}) =>
        \A i \in 1..Len(control_calls) :
            \E e \in ArrayElements(TheEnclosure) :
                /\ e.slot = slot
                /\ control_calls[i].dev = c_dev \o e.original[1].enclosure_bsg
                /\ DecValue(control_calls[i].slot) = e.original[1].slot - 1
\* display slot 1 of the mapped enclosure is slot 5 of the drawer: slot 4 on the wire
C10_Witness ==
    /\ cpc = "done"
    /\ enclosure_id = c_mapped
    /\ slot = 1
    /\ control_calls # <<>>
    /\ control_calls[1].dev = c_dev \o Qry.bsg_Drawer
    /\ control_calls[1].slot = <<"4">>
    /\ result = NoError

(***************************************************************************)
(* C11: in what query returns, the number of every enclosure is its         *)
(* position, counted from 0.  Lines 131-132 number the list and line 141    *)
(* sorts it afterwards, so the statement fails as soon as the sort moves    *)
(* an enclosure.                                                            *)
(***************************************************************************)
C11_NumberIsPosition ==
    (qpc = "done" /\ q_returned # None) =>
        \A i \in 1..Len(q_returned[1]) : q_returned[1][i].number = i - 1

(***************************************************************************)
(* C12: in what query returns, an enclosure whose name holds                *)
(* "eDrawer4048S1" stands first.  Line 124 puts it first, and the sort of   *)
(* line 141 then places it by its key as any other enclosure.               *)
(***************************************************************************)
C12_MarkerFirst ==
    (qpc = "done" /\ q_returned # None) =>
        \A i \in 1..Len(q_returned[1]) :
            Contains(q_returned[1][i].name, Str.eDrawer4048S1) => i = 1

(***************************************************************************)
(* C13: when no name holds "eDrawer4048S1", every adjacent pair (x, y) of   *)
(* what query returns has x a controller and y none, or both the same flag  *)
(* and x.id <= y.id.                                                        *)
(***************************************************************************)
NoMarker == \A i \in 1..Len(q_encs) : ~Contains(q_encs[i].encname, Str.eDrawer4048S1)
C13_OrderedByKey ==
    (qpc = "done" /\ q_returned # None /\ NoMarker) =>
        LET r == q_returned[1]
        IN  \A i \in 1..(Len(r) - 1) :
                \/ r[i].controller /\ ~r[i + 1].controller
                \/ /\ r[i].controller = r[i + 1].controller
                   /\ (r[i].id = r[i + 1].id \/ StrLess(r[i].id, r[i + 1].id))
\* a controller is returned before an enclosure that is none and has a smaller id
C13_Witness ==
    /\ qpc = "done"
    /\ q_returned # None
    /\ NoMarker
    /\ \E i \in 1..(Len(q_returned[1]) - 1) :
        /\ q_returned[1][i].controller
        /\ ~q_returned[1][i + 1].controller
        /\ StrLess(q_returned[1][i + 1].id, q_returned[1][i].id)

(***************************************************************************)
(* C14: a call of sync_disk without retry computes the pointer P, the       *)
(* number and the slot of the first Array Device Slot element of the        *)
(* device, or None; it calls disk.update exactly when P differs from the    *)
(* stored enclosure, and writes P; a disk in no slot ends with None.        *)
(***************************************************************************)
C14_Step ==
    (spc = "call" /\ ~sd_retry /\ spc' = "done") =>
        LET P == DiskEnclosure(sd_disk[1].name, LookedUp)
        IN  /\ P # sd_disk[1].enclosure =>
                /\ sd_updates' = Append(sd_updates, P)
                /\ sd_disk'[1].enclosure = P
            /\ P = sd_disk[1].enclosure => UNCHANGED <<sd_updates, sd_disk>>
            /\ P = None => sd_disk'[1].enclosure = None
            /\ sd_scheduled' = sd_scheduled
C14_WriteIffDiffers == [][C14_Step]_vars
\* a first call without retry has written a slot, another has cleared one
C14_Witness ==
    /\ spc = "done"
    /\ ~sd_retry
    /\ ~sd_recheck
    /\ Len(sd_updates) = 1
    /\ sd_updates[1] # None
    /\ sd_updates[1][1].number = 1
C14_WitnessCleared ==
    /\ spc = "done"
    /\ ~sd_retry
    /\ ~sd_recheck
    /\ sd_updates = <<None>>

(***************************************************************************)
(* C15: sync_disk with retry for a disk in no slot schedules one delayed    *)
(* call and returns without a write; the delayed call runs without retry,   *)
(* so there are at most two lookups and never a second scheduled call; a    *)
(* failure of the delayed call does not reach the first caller.             *)
(***************************************************************************)
C15_State ==
    /\ sd_scheduled <= 1
    /\ sd_lookups <= 2
    /\ sd_recheck => ~sd_retry
    /\ spc = "sleeping" =>
        sd_scheduled = 1 /\ sd_lookups = 1 /\ sd_updates = <<>> /\ sd_result = "returned"
    /\ sd_background = "raised" => sd_result = "returned"
C15_Step ==
    (spc = "call" /\ sd_retry /\ DiskEnclosure(sd_disk[1].name, LookedUp) = None) =>
        /\ spc' = "sleeping"
        /\ sd_scheduled' = sd_scheduled + 1
        /\ sd_result' = "returned"
        /\ UNCHANGED <<sd_updates, sd_disk>>
C15_SingleRecheck == []C15_State /\ [][C15_Step]_vars
\* the delayed call has run and returned, after two lookups
C15_Witness ==
    /\ spc = "done"
    /\ sd_recheck
    /\ sd_scheduled = 1
    /\ sd_lookups = 2
    /\ sd_background = "returned"

(***************************************************************************)
(* C16: an enclosure whose name matches the R50 drawer pattern, on the      *)
(* product TRUENAS-R50, has no Array Device Slot element with slot 25 or    *)
(* above.  _set_model makes the model "R50", which never starts with        *)
(* "R50, ", so the rule of line 625 does not apply to it.                   *)
(***************************************************************************)
C16_R50DropsFrom25 ==
    (MatchAny(R50_REGEX, encname) /\ product_name = Inp.p_R50) =>
        \A i \in ArraySlots : elements[i].slot < 25

(***************************************************************************)
(* C17: an enclosure whose name starts with "ECStream 3U16+4R-4X6G.3" has   *)
(* no Array Device Slot element with a slot above 16; a slot directory of   *)
(* raw index 20 gives no element, shifted or not, and nothing is raised.    *)
(***************************************************************************)
C17_SixteenBays ==
    StartsWith(encname, Str.ECStream3U16_4R) =>
        /\ \A i \in ArraySlots : elements[i].slot <= 16
        /\ pc # "raised"
        /\ (pc \in {"lines", "done"} /\ 20 \in RawIndexes) =>
              /\ \A i \in ArraySlots : elements[i].slot \notin {20, 21}
              /\ \A k \in RawIndexes \ {20} :
                    k + (IF 0 \in RawIndexes THEN 1 ELSE 0) <= 16 =>
                        \E i \in ArraySlots :
                            elements[i].slot = k + (IF 0 \in RawIndexes THEN 1 ELSE 0)
\* raw indexes 0 and 20 on the 16-bay chassis: slot 1 alone is exposed
C17_Witness ==
    /\ pc = "done"
    /\ StartsWith(encname, Str.ECStream3U16_4R)
    /\ RawIndexes = {0, 20}
    /\ {elements[i].slot : i \in ArraySlots} = {1}
\* raw index 20 alone, without the shift
C17_WitnessUnshifted ==
    /\ pc = "done"
    /\ StartsWith(encname, Str.ECStream3U16_4R)
    /\ RawIndexes = {20}
    /\ ArraySlots = {}

(***************************************************************************)
(* C18: on a product whose name starts with "TRUENAS-H" the directories     *)
(* named "4", "5", "6" and "7" are skipped, whatever their slot attribute   *)
(* says, and no other directory is; on other products none is skipped.      *)
(***************************************************************************)
SkippedNames == {<<"4">>, <<"5">>, <<"6">>, <<"7">>}
SlotDirs == {i \in 1..Len(sysfs) : sysfs[i].is_dir /\ IsSlotDir(sysfs[i])}
\* the slot directories that stay when those named in names are skipped on the H series
KeptDirs(names) ==
    {i \in SlotDirs : ~(StartsWith(product_name, Str.TRUENAS_H) /\ sysfs[i].name \in names)}
\* the slot numbers exposed when the directories of kept are the ones read
SlotsOf(kept) ==
    LET shift == IF \E i \in kept : RawIndex(i) = 0 THEN 1 ELSE 0
    IN  {RawIndex(i) + shift : i \in kept}
C18_SkippedByName ==
    (pc \in {"lines", "done"} /\ NoExclusion) =>
        {elements[i].slot : i \in ArraySlots} = SlotsOf(KeptDirs(SkippedNames))
\* C18 as stated: the directories skipped are those whose slot attribute is 4..7
C18_SkippedBySlotValue ==
    (pc \in {"lines", "done"} /\ NoExclusion) =>
        {elements[i].slot : i \in ArraySlots} =
            SlotsOf({i \in SlotDirs : ~(StartsWith(product_name, Str.TRUENAS_H)
                                        /\ RawIndex(i) \in {4, 5, 6, 7})})
\* on the H series "4" is skipped and "Slot 05", whose slot attribute is 5, is not
C18_Witness ==
    /\ pc = "done"
    /\ StartsWith(product_name, Str.TRUENAS_H)
    /\ {sysfs[i].name : i \in SlotDirs} = {<<"4">>, <<"S", "l", "o", "t", " ", "0", "5">>}
    /\ {elements[i].slot : i \in ArraySlots} = {5}

(***************************************************************************)
(* C19: every Array Device Slot element takes its state from one source.    *)
(* On a product whose name starts with "TRUENAS-H" it is the status,        *)
(* locate and fault texts of the slot directory (identify and fault are on  *)
(* when the text is not "0"); on any other product it is the four SES       *)
(* bytes of the slot, [5, 0, 0, 0] when SES has none: identify is bit 1 of  *)
(* byte 2, fault is bit 5 of byte 3, and the default reads "Not installed"  *)
(* with both off.                                                           *)
(***************************************************************************)
SesBytes(s) ==
    IF s \in DOMAIN ses_status /\ ses_status[s].type = 23
       /\ ses_status[s].descriptor # "<empty>"
    THEN ses_status[s].status ELSE <<5, 0, 0, 0>>
C19_WitnessSysfs ==
    /\ pc = "done"
    /\ StartsWith(product_name, Str.TRUENAS_H)
    /\ \E i \in ArraySlots : identify(elements[i]) /\ ~fault(elements[i])

(***************************************************************************)
(* C20: in every decoded enclosure the elements of one kind have pairwise   *)
(* distinct slot numbers, whatever the status block is.  _parse appends an  *)
(* element of slot N + 1 for each line of bytes that follows a descriptor   *)
(* of index N, and nothing keeps a second descriptor of the same index, or  *)
(* a second header of the same type, from giving the same slot again.       *)
(***************************************************************************)
C20_DistinctSlotsPerKind ==
    \A i, j \in 1..Len(elements) :
        (i # j /\ elements[i].name = elements[j].name) =>
            elements[i].slot # elements[j].slot

(***************************************************************************)
(* C21: no Array Device Slot element comes from a line of bytes of the      *)
(* status block: once map_disks_to_enclosure_slots has run, the Array       *)
(* Device Slot elements of the enclosure are those it made from the slot    *)
(* directories, whatever lines follow, an "Array Device Slot" header with   *)
(* descriptors and bytes included.                                          *)
(***************************************************************************)
ArrayElementsOf(elems) ==
    LET IsArray(e) == e.cls = "ArrayDevSlot" IN SelectSeq(elems, IsArray)
C21_ArraySlotsFromDirsOnly ==
    pc \in {"lines", "done"} =>
        LET H == StartsWith(product_name, Str.TRUENAS_H)
            mapping == DiskMapping(sysfs, H)
        IN  ArrayElementsOf(elements)
                = SlotElements(DOMAIN mapping, mapping, DiskRawValues(ses_status, H), H)
\* the block holds the header, a descriptor and bytes, and the two elements are
\* those of the two slot directories
C21_Witness ==
    /\ pc = "done"
    /\ Len(es) >= 3
    /\ SubSeq(es, 1, 3) = <<Inp.l_TypeArray, Inp.l_Desc1, Inp.l_Hex>>
    /\ Len(sysfs) = 2
    /\ Len(elements) = 2
    /\ {elements[i].slot : i \in ArraySlots} = {1, 2}

(***************************************************************************)
(* C22: the model and the controller flag are a function of the decoded     *)
(* name, the product name and the configuration text: the result of the     *)
(* first rule, in the order of _set_model, whose pattern matches the name    *)
(* (the 16-bay rule gives "Z Series" and a controller when the text holds   *)
(* the discriminator, "E16" and no controller otherwise), and the empty     *)
(* model and no controller when no rule matches.                            *)
(***************************************************************************)
ClassifierRules(name, product, data) ==
    LET Rule(hit, m, c) == [hit |-> hit, model |-> m, controller |-> c]
        Prefix(lit) == Len(name) >= Len(lit) /\ SubSeq(name, 1, Len(lit)) = lit
        OneOf(alts) == \E a \in alts : Prefix(a)
        Stripped == RemoveAll(product, Str.TRUENAS_)
    IN  <<Rule(OneOf(M_SERIES_REGEX), Str.MSeries, TRUE),
          Rule(OneOf(R_SERIES_REGEX \cup R20_REGEX \cup R50_REGEX), Stripped, TRUE),
          Rule(name = Str.AHCISGPIO,
               IF product \in R20_VARIANT THEN Stripped
               ELSE IF \E a \in MINI_REGEX :
                          Len(product) >= Len(a) /\ SubSeq(product, 1, Len(a)) = a
               THEN product
               ELSE <<>>,
               TRUE),
          Rule(OneOf(X_SERIES_REGEX), Str.XSeries, TRUE),
          Rule(Prefix(Str.BROADCOMVirtualSES03), Str.HSeries, TRUE),
          Rule(Prefix(Str.QUANTAJB9SIM), Str.E60, FALSE),
          Rule(Prefix(Str.Storage1729), Str.E24, FALSE),
          Rule(Prefix(Str.ECStream3U16_4R),
               IF Contains(data, Str.SD_9GV12P1J) THEN Str.ZSeries ELSE Str.E16,
               Contains(data, Str.SD_9GV12P1J)),
          Rule(Prefix(Str.ECStream3U16RJ), Str.E16, FALSE),
          Rule(Prefix(Str.HGSTH4102J), Str.ES102, FALSE),
          Rule(Prefix(Str.VikingESNDS) \/ Prefix(Str.VikingESVDS), Str.ES102G2, FALSE),
          Rule(Prefix(Str.CELESTICR0904), Str.ES60, FALSE),
          Rule(Prefix(Str.HGSTH4060J), Str.ES60G2, FALSE),
          Rule(OneOf(ES24_REGEX), Str.ES24, FALSE),
          Rule(OneOf(ES24F_REGEX), Str.ES24F, FALSE),
          Rule(Prefix(Str.CELESTICX2012), Str.ES12, FALSE)>>
C22_FirstRuleWins ==
    pc \notin {"idle", "init"} =>
        LET rules == ClassifierRules(encname, product_name, cf)
            hits == {i \in 1..Len(rules) : rules[i].hit}
        IN  IF hits = {} THEN model = <<>> /\ controller = FALSE
            ELSE /\ model = rules[Min(hits)].model
                 /\ controller = rules[Min(hits)].controller
\* the 16-bay name with the discriminator in the text: a Z Series controller
C22_Witness ==
    /\ pc = "done"
    /\ encname = Str.ECStream3U16_4R
    /\ Contains(cf, Str.SD_9GV12P1J)
    /\ model = Str.ZSeries
    /\ controller
\* a name no rule matches
C22_WitnessUnmatched ==
    /\ pc = "done"
    /\ encname = Inp.cf_Vendor
    /\ model = <<>>
    /\ ~controller

(***************************************************************************)
(* C27: the classifier makes a controller only with a model that is not     *)
(* empty.  The rule of the name "AHCI SGPIO Enclosure 2.00" sets the        *)
(* controller flag on every product (line 545) and the model only on the    *)
(* R20 variants and the Minis.                                              *)
(***************************************************************************)
C27_ControllerHasModel == controller => model # <<>>

(***************************************************************************)
(* C28: the delayed call of sync_disk looks the disk up in the enclosures   *)
(* as they are when it runs, so the disk ends with the slot it has then,    *)
(* whether the first caller gave an enclosure_info or not.  delayed() hands *)
(* the enclosure_info of the first call on (line 300): when one was given,  *)
(* the delayed lookup searches that one again.                              *)
(***************************************************************************)
C28_RecheckUsesCurrentEnclosures ==
    (spc = "done" /\ sd_recheck /\ sd_background = "returned") =>
        sd_disk[1].enclosure = DiskEnclosure(sd_disk[1].name, sd_query)


(***************************************************************************)
(* The blacklist of Enclosures and the two slot lookups (C23, C25, C30),   *)
(* under SpecLookup.                                                       *)
(***************************************************************************)
\* C23: the collection holds an enclosure whose name includes "VirtualSES" only when
\* the product name starts with "TRUENAS-H", one whose name includes "AHCI SGPIO
\* Enclosure 2.00" only on a Mini or an R20 variant, and it is empty when the product
\* name starts with neither "TRUENAS-" nor "FREENAS-".
C23_Blacklist ==
    (lpc = "done" /\ lk_fn = "Enclosures") =>
        LET collection == lk_ret[1]
            Holds(s) == \E i \in 1..Len(collection) : Contains(collection[i].encname, s)
        IN  /\ Holds(Str.VirtualSES) => StartsWith(lk_product, Str.TRUENAS_H)
            /\ Holds(Str.AHCISGPIO) =>
                   (Contains(lk_product, Str.MINI_) \/ lk_product \in R20_VARIANT)
            /\ ~(StartsWith(lk_product, Str.TRUENAS_) \/ StartsWith(lk_product, Str.FREENAS_))
                   => collection = <<>>
\* an H series keeps its virtual SES enclosure and loses the AHCI one
C23_Witness ==
    /\ lpc = "done"
    /\ lk_fn = "Enclosures"
    /\ lk_product = Inp.p_H10
    /\ \E i \in 1..Len(lk_stat) : lk_stat[i].name = Str.AHCISGPIO
    /\ \E i \in 1..Len(lk_ret[1]) : lk_ret[1][i].encname = Str.BROADCOMVirtualSES03
    /\ \A i \in 1..Len(lk_ret[1]) : lk_ret[1][i].encname # Str.AHCISGPIO

\* C25: _get_slot returns the first enclosure, in the order of the collection, that
\* has a matching Array Device Slot, and its first matching element; an enclosure
\* without an Array Device Slot group is skipped; MatchNotFound when nothing matches.
ArrayDeviceSlots(enc) ==
    IF \E k \in 1..Len(enc.elements) : enc.elements[k].name = Str.ArrayDeviceSlot
    THEN enc.elements[CHOOSE k \in 1..Len(enc.elements) :
                          enc.elements[k].name = Str.ArrayDeviceSlot].elements
    ELSE <<>>
C25_FirstMatch ==
    (lpc = "done" /\ lk_fn = "_get_slot") =>
        LET M(i) == {j \in 1..Len(ArrayDeviceSlots(lk_info[i])) :
                        SlotFilter(lk_filter, ArrayDeviceSlots(lk_info[i])[j])}
        IN  IF \A i \in 1..Len(lk_info) : M(i) = {} THEN lk_ret[1] = MatchNotFound
            ELSE \E i \in 1..Len(lk_info) :
                    /\ M(i) # {}
                    /\ \A k \in 1..(i - 1) : M(k) = {}
                    /\ \E j \in M(i) :
                          /\ \A k \in M(i) : j <= k
                          /\ lk_ret[1] = Found([enclosure |-> lk_info[i],
                                                slot |-> ArrayDeviceSlots(lk_info[i])[j]])
\* two enclosures have slot 1 and the first one is returned
C25_Witness ==
    /\ lpc = "done"
    /\ lk_fn = "_get_slot"
    /\ lk_filter.by = "slot"
    /\ lk_ret[1].exc = ""
    /\ lk_ret[1].value[1].enclosure = lk_info[1]
    /\ \E i \in 2..Len(lk_info) : SlotsMatching(lk_filter, lk_info[i]) # <<>>
\* an enclosure without Array Device Slot group stands before the one returned
C25_WitnessSkipped ==
    /\ lpc = "done"
    /\ lk_fn = "_get_slot"
    /\ lk_ret[1].exc = ""
    /\ \E i \in 2..Len(lk_info) :
          /\ lk_ret[1].value[1].enclosure = lk_info[i]
          /\ ArrayDeviceSlots(lk_info[1]) = <<>>
\* two empty slots of one enclosure match and the first one is returned
C25_WitnessFirstElement ==
    /\ lpc = "done"
    /\ lk_fn = "_get_slot"
    /\ lk_filter = [by |-> "Device", dev |-> <<>>, n |-> 0]
    /\ lk_ret[1].exc = ""
    /\ lk_ret[1].value[1].slot.slot = 2
    /\ Len(SlotsMatching(lk_filter, lk_ret[1].value[1].enclosure)) = 2

\* C30: _get_ses_slot returns an Array Device Slot of the resolved enclosure with the
\* requested slot, or raises MatchNotFound; never an element of another kind.
C30_ReturnsArrayDeviceSlot ==
    (lpc = "done" /\ lk_fn = "_get_ses_slot" /\ lk_ret[1].exc = "") =>
        /\ lk_ret[1].value[1].cls = "ArrayDevSlot"
        /\ lk_ret[1].value[1].slot =
               (IF lk_args.element.original # None THEN lk_args.element.original[1].slot
                ELSE lk_args.element.slot)


(***************************************************************************)
(* The label store (C24, C29), under SpecLabel.                            *)
(***************************************************************************)
RowsOf(rows, id) ==
    LET Same(r) == r.encid = id
    IN  SelectSeq(rows, Same)
\* between sequential calls: one row for every id a call has updated, with the label
\* of the last such call, and the rows of the other ids as they were
C24_RowsAfterCalls ==
    LET Updates(id) == {i \in 1..Len(lb_calls) :
                           /\ Finished(lb_calls[i])
                           /\ lb_calls[i].id = id
                           /\ lb_calls[i].label # None}
        ids == {lb_calls[i].id : i \in 1..Len(lb_calls)}
               \cup {lb_rows0[i].encid : i \in 1..Len(lb_rows0)}
               \cup {lb_rows[i].encid : i \in 1..Len(lb_rows)}
    IN  \A id \in ids :
            IF Updates(id) # {}
            THEN RowsOf(lb_rows, id) =
                     <<[encid |-> id, label |-> lb_calls[Max(Updates(id))].label[1]]>>
            ELSE RowsOf(lb_rows, id) = RowsOf(lb_rows0, id)
\* C24: after sequential do_update calls the store holds one row for each id
\* updated, with the label of the most recent call, and the other rows are unchanged;
\* a query then shows the stored label when it is not empty, and the name of the
\* enclosure when no label is stored or the stored label is empty.
C24_UpdateOrInsert ==
    (lb_serial /\ \A i \in 1..Len(lb_calls) : lb_calls[i].pc # "insert") =>
        /\ C24_RowsAfterCalls
        /\ lb_shown # None =>
              \A k \in 1..Len(lb_shown[1]) :
                  lb_shown[1][k].label =
                      (IF /\ RowsOf(lb_rows, lb_shown[1][k].id) # <<>>
                          /\ RowsOf(lb_rows, lb_shown[1][k].id)[1].label # <<>>
                       THEN RowsOf(lb_rows, lb_shown[1][k].id)[1].label
                       ELSE LabelEnclosures[k].name)
\* as the claim reads: the query shows the stored label whenever one is stored
C24_ShowsStoredLabel ==
    (lb_serial /\ \A i \in 1..Len(lb_calls) : lb_calls[i].pc # "insert") =>
        /\ C24_RowsAfterCalls
        /\ lb_shown # None =>
              \A k \in 1..Len(lb_shown[1]) :
                  lb_shown[1][k].label =
                      (IF RowsOf(lb_rows, lb_shown[1][k].id) # <<>>
                       THEN RowsOf(lb_rows, lb_shown[1][k].id)[1].label
                       ELSE LabelEnclosures[k].name)
\* two calls for one id with two labels, over a store that held a row of the id and
\* a row of another id, and the query after them
C24_Witness ==
    /\ lb_serial
    /\ Len(lb_calls) = 2
    /\ lb_calls[1].id = lb_calls[2].id
    /\ lb_calls[1].label # None
    /\ lb_calls[2].label # None
    /\ lb_calls[1].label # lb_calls[2].label
    /\ lb_calls[2].label # Some(<<>>)
    /\ Len(lb_rows0) = 2
    /\ RowsOf(lb_rows0, lb_calls[1].id) # <<>>
    /\ lb_shown # None
    /\ \E k \in 1..Len(lb_shown[1]) : lb_shown[1][k].label = lb_calls[2].label[1]
    /\ \E k \in 1..Len(lb_shown[1]) : lb_shown[1][k].label = LabelEnclosures[k].name

\* C29: when two do_update calls for one id run concurrently, after both the store
\* holds one row for the id with the label of one of them, and neither call fails.
C29_ConcurrentUpdates ==
    (/\ ~lb_serial
     /\ Len(lb_calls) = 2
     /\ lb_calls[1].id = lb_calls[2].id
     /\ lb_calls[1].label # None
     /\ lb_calls[2].label # None
     /\ Finished(lb_calls[1])
     /\ Finished(lb_calls[2])) =>
        /\ Len(RowsOf(lb_rows, lb_calls[1].id)) = 1
        /\ RowsOf(lb_rows, lb_calls[1].id)[1].label
               \in {lb_calls[1].label[1], lb_calls[2].label[1]}
        /\ lb_calls[1].pc = "done"
        /\ lb_calls[2].pc = "done"


(***************************************************************************)
(* Concurrent control of one slot (C26), under SpecConcurrent.             *)
(***************************************************************************)
\* the indicators a call leaves when it runs alone
CallEffect(hw, s) ==
    IF s = Str.CLEAR THEN [ident |-> FALSE, fault |-> FALSE]
    ELSE IF s = Str.IDENTIFY THEN [hw EXCEPT !.ident = TRUE]
    ELSE [hw EXCEPT !.fault = TRUE]
\* the indicators after the calls have run one after another in the order p
RECURSIVE SerialEffect(_, _, _)
SerialEffect(hw, p, n) ==
    IF n = 0 THEN hw
    ELSE CallEffect(SerialEffect(hw, p, n - 1), cc_callers[p[n]].status)
SerialOrders ==
    {p \in [1..Len(cc_callers) -> 1..Len(cc_callers)] :
        \A i, j \in 1..Len(cc_callers) : p[i] = p[j] => i = j}
CallersDone ==
    /\ cc_callers # <<>>
    /\ \A k \in 1..Len(cc_callers) :
          cc_callers[k].issued = (IF cc_callers[k].status = Str.CLEAR THEN 2 ELSE 1)
\* C26: when several callers issue set_slot_status to one slot concurrently, under
\* every interleaving of their control actions the final identify and fault
\* indicators are those of some serial execution of the calls.
C26_LastCommandWins ==
    CallersDone =>
        \E p \in SerialOrders : cc_hw = SerialEffect(cc_hw0, p, Len(cc_callers))
\* CLEAR, IDENTIFY and FAULT together, the action of another caller reaching the
\* hardware between the two actions of CLEAR, and the identify indicator left on
C26_Witness ==
    /\ CallersDone
    /\ Len(cc_callers) = 3
    /\ {cc_callers[k].status : k \in 1..3} = Statuses
    /\ cc_hw0 = [ident |-> FALSE, fault |-> FALSE]
    /\ cc_hw = [ident |-> TRUE, fault |-> FALSE]
    /\ \E a, b, c \in 1..Len(cc_log) :
          /\ a < b /\ b < c
          /\ cc_log[a] = cc_log[c]
          /\ cc_log[b] # cc_log[a]

====
